---- MODULE Spec2Model ----
(***************************************************************************)
(* Razor external scanner (src/src/scanner.c): the context stack, the      *)
(* scan dispatcher with its token families, and serialize / deserialize.   *)
(* Characters are code points; the lexer is the host's cursor with its     *)
(* token start and marked end.                                             *)
(***************************************************************************)
EXTENDS Integers, Sequences, FiniteSets, TLC

\* ------------------------------------------------------------------------
\* Characters
\* ------------------------------------------------------------------------

\* Code points of the characters the documents of the model are written in.
Ord ==
  ("@" :> 64) @@ ("{" :> 123) @@ ("}" :> 125) @@ ("(" :> 40) @@ (")" :> 41) @@
  (" " :> 32) @@ ("\t" :> 9) @@ ("\n" :> 10) @@ ("\r" :> 13) @@
  ("<" :> 60) @@ (">" :> 62) @@ ("/" :> 47) @@ ("*" :> 42) @@ ("#" :> 35) @@
  ("." :> 46) @@ ("-" :> 45) @@ ("[" :> 91) @@ ("_" :> 95) @@ (";" :> 59) @@
  ("=" :> 61) @@ ("'" :> 39) @@ ("\"" :> 34) @@
  ("0" :> 48) @@ ("1" :> 49) @@ ("9" :> 57) @@
  ("A" :> 65) @@ ("C" :> 67) @@ ("E" :> 69) @@ ("I" :> 73) @@ ("L" :> 76) @@
  ("P" :> 80) @@ ("R" :> 82) @@ ("S" :> 83) @@ ("T" :> 84) @@ ("X" :> 88) @@
  ("Y" :> 89) @@ ("Z" :> 90) @@
  ("a" :> 97) @@ ("b" :> 98) @@ ("c" :> 99) @@ ("e" :> 101) @@ ("f" :> 102) @@
  ("h" :> 104) @@ ("i" :> 105) @@ ("l" :> 108) @@ ("n" :> 110) @@ ("o" :> 111) @@
  ("p" :> 112) @@ ("r" :> 114) @@ ("s" :> 115) @@ ("t" :> 116) @@ ("x" :> 120) @@
  ("y" :> 121) @@ ("z" :> 122)

\* The characters the scanner compares the lookahead with.
AT == 64
LBRACE == 123
RBRACE == 125
LPAREN == 40
RPAREN == 41
SPACE == 32
TAB == 9
LF == 10
CR == 13
LT == 60
SLASH == 47
STAR == 42
HASH == 35
DOT == 46
DASH == 45
UNDERSCORE == 95
LBRACKET == 91
DQUOTE == 34
SQUOTE == 39
LOWER_E == 101
LOWER_C == 99
LOWER_F == 102

\* A document written as a tuple of one-character strings, as code points.
Str(s) == [i \in 1..Len(s) |-> Ord[s[i]]]

\* The code point the lexer shows at end of input.
EndMarker == 0

\* ------------------------------------------------------------------------
\* Token kinds and context types
\* ------------------------------------------------------------------------

CSHARP_TOKEN_COUNT == 12

TEXT_WITH_LITERAL_AT == 12
HTML_TEXT_CONTENT == 13
CSHARP_CODE_BLOCK_START == 14
CSHARP_EXPLICIT_EXPR_START == 15
RAZOR_BLOCK_OPEN == 16
CSHARP_CONTEXT_CLOSE == 17
CSHARP_COMMENT == 18
CSHARP_PREPROC == 19
SCRIPT_CONTENT == 20
STYLE_CONTENT == 21
TITLE_CONTENT == 22
TEXTAREA_CONTENT == 23

\* The twelve kinds of this scanner, and the kinds of the C# scanner.
RazorKinds == TEXT_WITH_LITERAL_AT..TEXTAREA_CONTENT
CSharpKinds == 0..(CSHARP_TOKEN_COUNT - 1)

\* result_symbol when a call declines: nothing is recorded.
NoSymbol == 0 - 1

CONTEXT_HTML == 0
CONTEXT_CSHARP_BRACE == 1
CONTEXT_CSHARP_PAREN == 2

\* ------------------------------------------------------------------------
\* Character classifier
\* ------------------------------------------------------------------------

is_unicode_letter(c) ==
  \/ (c >= 65 /\ c <= 90) \/ (c >= 97 /\ c <= 122)
  \/ (c >= 192 /\ c <= 255 /\ c # 215 /\ c # 247)
  \/ (c >= 256 /\ c <= 383)
  \/ (c >= 384 /\ c <= 591)
  \/ (c >= 880 /\ c <= 1023)
  \/ (c >= 1024 /\ c <= 1279)
  \/ (c >= 1424 /\ c <= 1535)
  \/ (c >= 1536 /\ c <= 1791)
  \/ (c >= 2304 /\ c <= 2431)
  \/ (c >= 3584 /\ c <= 3711)
  \/ (c >= 19968 /\ c <= 40959)
  \/ (c >= 12352 /\ c <= 12447)
  \/ (c >= 12448 /\ c <= 12543)
  \/ (c >= 44032 /\ c <= 55215)

is_unicode_digit(c) == c >= 48 /\ c <= 57

is_email_char(c) == is_unicode_letter(c) \/ is_unicode_digit(c)

is_identifier_char(c) == is_unicode_letter(c) \/ is_unicode_digit(c) \/ c = UNDERSCORE

\* iswspace in the C locale: space, \t, \n, \v, \f, \r.
iswspace(c) == c = 32 \/ (c >= 9 /\ c <= 13)

\* ------------------------------------------------------------------------
\* The lexer: cursor position, token start, marked end (NoMark: none yet)
\* ------------------------------------------------------------------------

NoMark == 0 - 1

NewLexer(p) == [pos |-> p, start |-> p, mark |-> NoMark]

eof(doc, lx) == lx.pos >= Len(doc)

lookahead(doc, lx) == IF lx.pos < Len(doc) THEN doc[lx.pos + 1] ELSE EndMarker

\* lexer->advance(lexer, false): the character becomes part of the token.
razor_advance(doc, lx) ==
  IF eof(doc, lx) THEN lx ELSE [lx EXCEPT !.pos = @ + 1]

\* lexer->advance(lexer, true): the token starts after the character.
razor_skip(doc, lx) ==
  IF eof(doc, lx) THEN lx ELSE [lx EXCEPT !.pos = @ + 1, !.start = lx.pos + 1]

mark_end(lx) == [lx EXCEPT !.mark = lx.pos]

\* Where a committed token ends: the marked end, or the cursor when no end was marked.
TokenEnd(lx) == IF lx.mark = NoMark THEN lx.pos ELSE lx.mark

\* Mutant: every position counts as C# context.
in_csharp_context_Always(stack) == TRUE

in_csharp_context(stack) == Len(stack) > 0

\* Mutant: the region is recorded with the markup value.
array_push_Html(stack, tag) == Append(stack, CONTEXT_HTML)


array_push(stack, tag) == Append(stack, tag)

\* Mutant: the pop leaves the stack as it is.
array_pop_Keeps(stack) == stack

array_pop(stack) == SubSeq(stack, 1, Len(stack) - 1)

\* ------------------------------------------------------------------------
\* TEXT_WITH_LITERAL_AT: text holding word@word
\* ------------------------------------------------------------------------

\* The domain part after a literal @: word characters, '.' and '-'.
RECURSIVE DomainLoop(_, _)
DomainLoop(doc, lx) ==
  LET c == lookahead(doc, lx) IN
  IF is_email_char(c) \/ c = DOT \/ c = DASH
  THEN DomainLoop(doc, razor_advance(doc, lx))
  ELSE lx

\* Mutant: last_was_word is not updated as the scan moves on.
RECURSIVE LiteralAtLoop_ForgetsWord(_, _, _, _)
LiteralAtLoop_ForgetsWord(doc, lx, found_literal_at, last_was_word) ==
  LET c == lookahead(doc, lx) IN
  IF ~eof(doc, lx) /\ c # LT /\ c # DQUOTE /\ c # SQUOTE
  THEN IF c = AT
       THEN IF last_was_word
            THEN LET lx1 == razor_advance(doc, lx) IN
                 IF is_email_char(lookahead(doc, lx1))
                 THEN LiteralAtLoop_ForgetsWord(doc, mark_end(DomainLoop(doc, lx1)),
                                                TRUE, FALSE)
                 ELSE [lx |-> lx1, found |-> found_literal_at]
            ELSE [lx |-> lx, found |-> found_literal_at]
       ELSE LET lx1 == razor_advance(doc, lx) IN
            LiteralAtLoop_ForgetsWord(doc, IF found_literal_at THEN mark_end(lx1) ELSE lx1,
                                      found_literal_at, last_was_word)
  ELSE [lx |-> lx, found |-> found_literal_at]


\* The scan loop: the lexer it leaves and whether a literal @ was found.
RECURSIVE LiteralAtLoop(_, _, _, _)
LiteralAtLoop(doc, lx, found_literal_at, last_was_word) ==
  LET c == lookahead(doc, lx) IN
  IF ~eof(doc, lx) /\ c # LT /\ c # DQUOTE /\ c # SQUOTE
  THEN IF c = AT
       THEN IF last_was_word
            THEN LET lx1 == razor_advance(doc, lx) IN
                 IF is_email_char(lookahead(doc, lx1))
                 THEN LiteralAtLoop(doc, mark_end(DomainLoop(doc, lx1)), TRUE, FALSE)
                 ELSE [lx |-> lx1, found |-> found_literal_at]
            ELSE [lx |-> lx, found |-> found_literal_at]
       ELSE LET lx1 == razor_advance(doc, lx) IN
            LiteralAtLoop(doc, IF found_literal_at THEN mark_end(lx1) ELSE lx1,
                          found_literal_at, is_email_char(c))
  ELSE [lx |-> lx, found |-> found_literal_at]

\* Mutant: the family is attempted in C# context too.
LiteralAtGate_AnyContext(valid, stack) == TEXT_WITH_LITERAL_AT \in valid

\* Whether the family is attempted at all.
LiteralAtGate(valid, stack) ==
  TEXT_WITH_LITERAL_AT \in valid /\ ~in_csharp_context(stack)

LiteralAtFamily(doc, lx, stack, valid) ==
  IF LiteralAtGate(valid, stack)
  THEN LiteralAtLoop(doc, lx, FALSE, FALSE)
  ELSE [lx |-> lx, found |-> FALSE]

\* ------------------------------------------------------------------------
\* HTML_TEXT_CONTENT: markup text, held back at else / catch / finally
\* ------------------------------------------------------------------------

\* The identifier run read into keyword_buf: at most 7 characters, each cast to char.
RECURSIVE KeywordRun(_, _, _)
KeywordRun(doc, lx, keyword_buf) ==
  IF Len(keyword_buf) < 7 /\ is_identifier_char(lookahead(doc, lx))
  THEN KeywordRun(doc, razor_advance(doc, lx),
                  Append(keyword_buf, lookahead(doc, lx) % 256))
  ELSE [lx |-> lx, buf |-> keyword_buf]

\* keyword_buf as strcmp reads it: up to its first zero byte.
RECURSIVE CString(_)
CString(buf) ==
  IF buf = <<>> \/ Head(buf) = 0 THEN <<>> ELSE <<Head(buf)>> \o CString(Tail(buf))

IsKeyword(doc, start_char, run) ==
  /\ ~is_identifier_char(lookahead(doc, run.lx))
  /\ \/ start_char = LOWER_E /\ CString(run.buf) = Str(<<"e", "l", "s", "e">>)
     \/ start_char = LOWER_C /\ CString(run.buf) = Str(<<"c", "a", "t", "c", "h">>)
     \/ start_char = LOWER_F
        /\ CString(run.buf) = Str(<<"f", "i", "n", "a", "l", "l", "y">>)

RECURSIVE HtmlTextLoop(_, _, _, _)
HtmlTextLoop(doc, lx, has_content, at_line_start) ==
  LET c == lookahead(doc, lx)
      stop == [lx |-> lx, has_content |-> has_content, found_keyword |-> FALSE]
  IN
  IF eof(doc, lx) THEN stop
  ELSE IF c = LT \/ c = AT THEN stop
  ELSE IF c = DOT \/ c = LBRACKET \/ c = LPAREN THEN stop
  ELSE IF c = DQUOTE \/ c = SQUOTE THEN stop
  ELSE IF c = LF \/ c = CR
       THEN HtmlTextLoop(doc, mark_end(razor_advance(doc, lx)), TRUE, TRUE)
  ELSE IF at_line_start /\ (c = SPACE \/ c = TAB)
       THEN HtmlTextLoop(doc, mark_end(razor_advance(doc, lx)), TRUE, at_line_start)
  ELSE IF at_line_start /\ (c = LOWER_E \/ c = LOWER_C \/ c = LOWER_F)
       THEN LET run == KeywordRun(doc, mark_end(lx), <<>>) IN
            IF IsKeyword(doc, c, run)
            THEN [lx |-> run.lx, has_content |-> has_content, found_keyword |-> TRUE]
            ELSE HtmlTextLoop(doc, mark_end(run.lx), TRUE, FALSE)
  ELSE HtmlTextLoop(doc, mark_end(razor_advance(doc, lx)), TRUE, FALSE)

HtmlTextGate(valid, stack) ==
  HTML_TEXT_CONTENT \in valid /\ ~in_csharp_context(stack)

\* Mutant: the scan does not start at a logical line start.
HtmlTextFamily_MidLine(doc, lx, stack, valid) ==
  IF HtmlTextGate(valid, stack)
  THEN HtmlTextLoop(doc, lx, FALSE, FALSE)
  ELSE [lx |-> lx, has_content |-> FALSE, found_keyword |-> FALSE]


HtmlTextFamily(doc, lx, stack, valid) ==
  IF HtmlTextGate(valid, stack)
  THEN HtmlTextLoop(doc, lx, FALSE, TRUE)
  ELSE [lx |-> lx, has_content |-> FALSE, found_keyword |-> FALSE]

\* ------------------------------------------------------------------------
\* The outcome of a scan call
\* ------------------------------------------------------------------------

\* return true with result_symbol = sym: the token runs from the lexer's token
\* start to its marked end.
Commit(sym, lx, stack, cs) ==
  [ret |-> TRUE, sym |-> sym, lx |-> lx, stack |-> stack, cs |-> cs, delegated |-> FALSE]

\* return false: no kind is recorded.
Decline(lx, stack, cs) ==
  [ret |-> FALSE, sym |-> NoSymbol, lx |-> lx, stack |-> stack, cs |-> cs,
   delegated |-> FALSE]

\* ------------------------------------------------------------------------
\* Whitespace skipped as trivia before RAZOR_BLOCK_OPEN / CSHARP_CONTEXT_CLOSE
\* ------------------------------------------------------------------------

\* Mutant: whitespace before the token is not skipped.
SkipSpace_None(doc, lx) == lx

RECURSIVE SkipSpace(_, _)
SkipSpace(doc, lx) ==
  IF iswspace(lookahead(doc, lx)) THEN SkipSpace(doc, razor_skip(doc, lx)) ELSE lx

\* Mutant: any closer closes any region.
CloseMatches_Any(top, c) == c = RBRACE \/ c = RPAREN

\* Whether the closing character under the cursor matches the top of the stack.
CloseMatches(top, c) ==
  \/ top = CONTEXT_CSHARP_BRACE /\ c = RBRACE
  \/ top = CONTEXT_CSHARP_PAREN /\ c = RPAREN

\* Whether the CSHARP_CONTEXT_CLOSE family is attempted.
CloseGate(valid, stack) == CSHARP_CONTEXT_CLOSE \in valid /\ Len(stack) > 0

\* Whether the C# extras (comment, preprocessor line) are attempted.
CommentGate(valid, stack) == CSHARP_COMMENT \in valid /\ in_csharp_context(stack)

PreprocGate(valid, stack) == CSHARP_PREPROC \in valid /\ in_csharp_context(stack)

\* ------------------------------------------------------------------------
\* CSHARP_COMMENT and CSHARP_PREPROC
\* ------------------------------------------------------------------------

\* Mutant: only a line feed ends the line.
RECURSIVE RestOfLine_LfOnly(_, _)
RestOfLine_LfOnly(doc, lx) ==
  IF ~eof(doc, lx) /\ lookahead(doc, lx) # LF
  THEN RestOfLine_LfOnly(doc, razor_advance(doc, lx))
  ELSE lx


RECURSIVE RestOfLine(_, _)
RestOfLine(doc, lx) ==
  IF ~eof(doc, lx) /\ lookahead(doc, lx) # LF /\ lookahead(doc, lx) # CR
  THEN RestOfLine(doc, razor_advance(doc, lx))
  ELSE lx

\* The block comment loop: the lexer where the comment returns.
RECURSIVE BlockComment(_, _)
BlockComment(doc, lx) ==
  IF eof(doc, lx) THEN lx
  ELSE IF lookahead(doc, lx) = STAR
       THEN LET lx1 == razor_advance(doc, lx) IN
            IF lookahead(doc, lx1) = SLASH
            THEN razor_advance(doc, lx1)
            ELSE BlockComment(doc, lx1)
       ELSE BlockComment(doc, razor_advance(doc, lx))

\* The preprocessor line with its terminator.
PreprocLine(doc, lx) ==
  LET a == RestOfLine(doc, razor_advance(doc, lx))
      b == IF ~eof(doc, a) /\ lookahead(doc, a) = CR THEN razor_advance(doc, a) ELSE a
  IN IF ~eof(doc, b) /\ lookahead(doc, b) = LF THEN razor_advance(doc, b) ELSE b

\* ------------------------------------------------------------------------
\* Raw content: script, style, title, textarea
\* ------------------------------------------------------------------------

\* Mutant: the tag name is matched in lower case only.
RECURSIVE TagMatch_CaseSensitive(_, _, _, _)
TagMatch_CaseSensitive(doc, lx, tag, i) ==
  IF i > Len(tag) THEN [lx |-> lx, i |-> i, matches |-> TRUE]
  ELSE LET c == lookahead(doc, lx) IN
       IF c # tag[i]
       THEN [lx |-> lx, i |-> i, matches |-> FALSE]
       ELSE TagMatch_CaseSensitive(doc, razor_advance(doc, lx), tag, i + 1)


\* Matching the tag name after "</": each letter in either case.
RECURSIVE TagMatch(_, _, _, _)
TagMatch(doc, lx, tag, i) ==
  IF i > Len(tag) THEN [lx |-> lx, i |-> i, matches |-> TRUE]
  ELSE LET c == lookahead(doc, lx) IN
       IF c # tag[i] /\ c # tag[i] - 32
       THEN [lx |-> lx, i |-> i, matches |-> FALSE]
       ELSE TagMatch(doc, razor_advance(doc, lx), tag, i + 1)

\* Mutant: after a closing tag that does not match, the character that broke
\* the match is consumed with it.
RECURSIVE RawLoop_SkipsMismatch(_, _, _, _)
RawLoop_SkipsMismatch(doc, lx, tag, has_content) ==
  IF eof(doc, lx) THEN [lx |-> lx, has_content |-> has_content]
  ELSE IF lookahead(doc, lx) = LT
       THEN LET lx1 == razor_advance(doc, mark_end(lx)) IN
            IF lookahead(doc, lx1) = SLASH
            THEN LET m == TagMatch(doc, razor_advance(doc, lx1), tag, 1) IN
                 IF m.matches /\ m.i - 1 = Len(tag)
                 THEN [lx |-> m.lx, has_content |-> has_content]
                 ELSE RawLoop_SkipsMismatch(doc, mark_end(razor_advance(doc, m.lx)),
                                            tag, TRUE)
            ELSE RawLoop_SkipsMismatch(doc, mark_end(lx1), tag, TRUE)
       ELSE RawLoop_SkipsMismatch(doc, mark_end(razor_advance(doc, lx)), tag, TRUE)


RECURSIVE RawLoop(_, _, _, _)
RawLoop(doc, lx, tag, has_content) ==
  IF eof(doc, lx) THEN [lx |-> lx, has_content |-> has_content]
  ELSE IF lookahead(doc, lx) = LT
       THEN LET lx1 == razor_advance(doc, mark_end(lx)) IN
            IF lookahead(doc, lx1) = SLASH
            THEN LET m == TagMatch(doc, razor_advance(doc, lx1), tag, 1) IN
                 IF m.matches /\ m.i - 1 = Len(tag)
                 THEN [lx |-> m.lx, has_content |-> has_content]
                 ELSE RawLoop(doc, mark_end(m.lx), tag, TRUE)
            ELSE RawLoop(doc, mark_end(lx1), tag, TRUE)
       ELSE RawLoop(doc, mark_end(razor_advance(doc, lx)), tag, TRUE)

\* Mutant: a leading < makes the call decline only when it begins "</" and the
\* tag's first letter; any other leading < is scanned as content.
RawFamily_LtIsContent(doc, lx, stack, cs, sym, tag) ==
  LET lx1 == razor_advance(doc, mark_end(lx))
      lx2 == razor_advance(doc, lx1)
  IN
  IF /\ lookahead(doc, lx) = LT
     /\ lookahead(doc, lx1) = SLASH
     /\ lookahead(doc, lx2) \in {tag[1], tag[1] - 32}
  THEN Decline(lx2, stack, cs)
  ELSE LET r == RawLoop(doc, lx, tag, FALSE) IN
       IF r.has_content THEN Commit(sym, r.lx, stack, cs) ELSE Decline(r.lx, stack, cs)


\* One raw-content family, reached with its kind admissible.
RawFamily(doc, lx, stack, cs, sym, tag) ==
  IF lookahead(doc, lx) = LT
  THEN LET lx1 == razor_advance(doc, mark_end(lx)) IN
       IF lookahead(doc, lx1) = SLASH
       THEN Decline(razor_advance(doc, lx1), stack, cs)
       ELSE Decline(lx1, stack, cs)
  ELSE LET r == RawLoop(doc, lx, tag, FALSE) IN
       IF r.has_content THEN Commit(sym, r.lx, stack, cs) ELSE Decline(r.lx, stack, cs)

\* ------------------------------------------------------------------------
\* The dispatcher, family by family in the order of the code
\* ------------------------------------------------------------------------

\* return tree_sitter_c_sharp_external_scanner_scan(...): the C# scanner is a
\* black box, so its answer sub is an input: it declines, or commits one of its
\* own kinds over sub.len further characters and moves to the state sub.cs.
RECURSIVE AdvanceBy(_, _, _)
AdvanceBy(doc, lx, n) ==
  IF n = 0 THEN lx ELSE AdvanceBy(doc, razor_advance(doc, lx), n - 1)

\* Mutant: the call returns false instead of asking the C# scanner.
Delegate_Declines(doc, lx, stack, cs, valid, sub) ==
  [ret |-> FALSE, sym |-> NoSymbol, lx |-> lx, stack |-> stack, cs |-> cs,
   delegated |-> FALSE]


Delegate(doc, lx, stack, cs, valid, sub) ==
  IF sub.ret
  THEN [ret |-> TRUE, sym |-> sub.sym, lx |-> AdvanceBy(doc, lx, sub.len),
        stack |-> stack, cs |-> sub.cs, delegated |-> TRUE]
  ELSE [ret |-> FALSE, sym |-> NoSymbol, lx |-> lx, stack |-> stack, cs |-> cs,
        delegated |-> TRUE]

RawFamilies(doc, lx, stack, cs, valid, sub) ==
  IF SCRIPT_CONTENT \in valid
  THEN RawFamily(doc, lx, stack, cs, SCRIPT_CONTENT, Str(<<"s", "c", "r", "i", "p", "t">>))
  ELSE IF STYLE_CONTENT \in valid
  THEN RawFamily(doc, lx, stack, cs, STYLE_CONTENT, Str(<<"s", "t", "y", "l", "e">>))
  ELSE IF TITLE_CONTENT \in valid
  THEN RawFamily(doc, lx, stack, cs, TITLE_CONTENT, Str(<<"t", "i", "t", "l", "e">>))
  ELSE IF TEXTAREA_CONTENT \in valid
  THEN RawFamily(doc, lx, stack, cs, TEXTAREA_CONTENT,
                 Str(<<"t", "e", "x", "t", "a", "r", "e", "a">>))
  ELSE Delegate(doc, lx, stack, cs, valid, sub)

PreprocFamily(doc, lx, stack, cs, valid, sub) ==
  IF PreprocGate(valid, stack) /\ lookahead(doc, lx) = HASH
  THEN Commit(CSHARP_PREPROC, PreprocLine(doc, lx), stack, cs)
  ELSE RawFamilies(doc, lx, stack, cs, valid, sub)

CommentFamily(doc, lx, stack, cs, valid, sub) ==
  IF CommentGate(valid, stack) /\ lookahead(doc, lx) = SLASH
  THEN LET lx1 == razor_advance(doc, lx) IN
       IF lookahead(doc, lx1) = SLASH
       THEN Commit(CSHARP_COMMENT, RestOfLine(doc, razor_advance(doc, lx1)), stack, cs)
       ELSE IF lookahead(doc, lx1) = STAR
       THEN Commit(CSHARP_COMMENT, BlockComment(doc, razor_advance(doc, lx1)), stack, cs)
       ELSE Decline(lx1, stack, cs)
  ELSE PreprocFamily(doc, lx, stack, cs, valid, sub)

CloseFamily(doc, lx, stack, cs, valid, sub) ==
  IF CloseGate(valid, stack)
  THEN LET lx1 == SkipSpace(doc, lx)
           top == stack[Len(stack)]
       IN IF CloseMatches(top, lookahead(doc, lx1))
          THEN Commit(CSHARP_CONTEXT_CLOSE, razor_advance(doc, lx1), array_pop(stack), cs)
          ELSE CommentFamily(doc, lx1, stack, cs, valid, sub)
  ELSE CommentFamily(doc, lx, stack, cs, valid, sub)

RazorBlockOpenFamily(doc, lx, stack, cs, valid, sub) ==
  IF RAZOR_BLOCK_OPEN \in valid
  THEN LET lx1 == SkipSpace(doc, lx) IN
       IF lookahead(doc, lx1) = LBRACE
       THEN Commit(RAZOR_BLOCK_OPEN, razor_advance(doc, lx1),
                   array_push(stack, CONTEXT_CSHARP_BRACE), cs)
       ELSE CloseFamily(doc, lx1, stack, cs, valid, sub)
  ELSE CloseFamily(doc, lx, stack, cs, valid, sub)

\* Mutant: the tag is pushed as soon as the @ is consumed, before the follow-up
\* character is tested.
AtFamily_PushesEarly(doc, lx, stack, cs, valid, sub) ==
  IF (CSHARP_CODE_BLOCK_START \in valid \/ CSHARP_EXPLICIT_EXPR_START \in valid)
     /\ lookahead(doc, lx) = AT
  THEN LET lx1 == razor_advance(doc, lx) IN
       IF CSHARP_CODE_BLOCK_START \in valid /\ lookahead(doc, lx1) = LBRACE
       THEN Commit(CSHARP_CODE_BLOCK_START, razor_advance(doc, lx1),
                   array_push(stack, CONTEXT_CSHARP_BRACE), cs)
       ELSE IF CSHARP_EXPLICIT_EXPR_START \in valid /\ lookahead(doc, lx1) = LPAREN
       THEN Commit(CSHARP_EXPLICIT_EXPR_START, razor_advance(doc, lx1),
                   array_push(stack, CONTEXT_CSHARP_PAREN), cs)
       ELSE Decline(lx1, array_push(stack, CONTEXT_CSHARP_BRACE), cs)
  ELSE RazorBlockOpenFamily(doc, lx, stack, cs, valid, sub)


\* Mutant: @{ is committed whichever of the two kinds is admissible.
AtFamily_Unchecked(doc, lx, stack, cs, valid, sub) ==
  IF (CSHARP_CODE_BLOCK_START \in valid \/ CSHARP_EXPLICIT_EXPR_START \in valid)
     /\ lookahead(doc, lx) = AT
  THEN LET lx1 == razor_advance(doc, lx) IN
       IF lookahead(doc, lx1) = LBRACE
       THEN Commit(CSHARP_CODE_BLOCK_START, razor_advance(doc, lx1),
                   array_push(stack, CONTEXT_CSHARP_BRACE), cs)
       ELSE IF CSHARP_EXPLICIT_EXPR_START \in valid /\ lookahead(doc, lx1) = LPAREN
       THEN Commit(CSHARP_EXPLICIT_EXPR_START, razor_advance(doc, lx1),
                   array_push(stack, CONTEXT_CSHARP_PAREN), cs)
       ELSE Decline(lx1, stack, cs)
  ELSE RazorBlockOpenFamily(doc, lx, stack, cs, valid, sub)

\* @{ and @(
AtFamily(doc, lx, stack, cs, valid, sub) ==
  IF (CSHARP_CODE_BLOCK_START \in valid \/ CSHARP_EXPLICIT_EXPR_START \in valid)
     /\ lookahead(doc, lx) = AT
  THEN LET lx1 == razor_advance(doc, lx) IN
       IF CSHARP_CODE_BLOCK_START \in valid /\ lookahead(doc, lx1) = LBRACE
       THEN Commit(CSHARP_CODE_BLOCK_START, razor_advance(doc, lx1),
                   array_push(stack, CONTEXT_CSHARP_BRACE), cs)
       ELSE IF CSHARP_EXPLICIT_EXPR_START \in valid /\ lookahead(doc, lx1) = LPAREN
       THEN Commit(CSHARP_EXPLICIT_EXPR_START, razor_advance(doc, lx1),
                   array_push(stack, CONTEXT_CSHARP_PAREN), cs)
       ELSE Decline(lx1, stack, cs)
  ELSE RazorBlockOpenFamily(doc, lx, stack, cs, valid, sub)

\* tree_sitter_razor_external_scanner_scan, called with the cursor at p.
scan(doc, p, stack, cs, valid, sub) ==
  LET a == LiteralAtFamily(doc, NewLexer(p), stack, valid) IN
  IF a.found THEN Commit(TEXT_WITH_LITERAL_AT, a.lx, stack, cs)
  ELSE LET h == HtmlTextFamily(doc, a.lx, stack, valid) IN
       IF h.has_content THEN Commit(HTML_TEXT_CONTENT, h.lx, stack, cs)
       ELSE IF h.found_keyword THEN Decline(h.lx, stack, cs)
       ELSE AtFamily(doc, h.lx, stack, cs, valid, sub)

\* ------------------------------------------------------------------------
\* The C# scanner, a black box behind its interface
\* ------------------------------------------------------------------------

\* A byte of the serialization buffer.
ByteMod == 256

\* The capacity of the host's serialization buffer.
TREE_SITTER_SERIALIZATION_BUFFER_SIZE == 1024

\* The state of the C# scanner as it observes it: its quote count and four
\* bytes for each open interpolation.
CSharpCreate == [quote |-> 0, interp |-> <<>>]

\* tree_sitter_c_sharp_external_scanner_serialize: [quote][N][4N bytes].
CSharpSerialize(cs) == <<cs.quote, Len(cs.interp) \div 4>> \o cs.interp

\* tree_sitter_c_sharp_external_scanner_deserialize(buffer, length).
CSharpDeserialize(buf, len) ==
  IF len = 0 THEN CSharpCreate
  ELSE [quote |-> buf[1], interp |-> SubSeq(buf, 3, len)]

\* ------------------------------------------------------------------------
\* serialize and deserialize
\* ------------------------------------------------------------------------

\* (char)scanner->context_stack.size, as the byte the buffer holds.
CountByte(size) == size % ByteMod

\* Mutant: the count byte is left out of the size that must fit.
Fits_NoCount(csharp_size, stack) ==
  ~(csharp_size + Len(stack) > TREE_SITTER_SERIALIZATION_BUFFER_SIZE)

\* Whether the Razor state fits behind the C# state.
Fits(csharp_size, stack) ==
  ~(csharp_size + (1 + Len(stack)) > TREE_SITTER_SERIALIZATION_BUFFER_SIZE)

\* tree_sitter_razor_external_scanner_serialize: the bytes written to the
\* buffer from its start, and the length returned.
serialize(stack, cs) ==
  LET blob == CSharpSerialize(cs) IN
  IF ~Fits(Len(blob), stack)
  THEN [buffer |-> blob, size |-> 0]
  ELSE [buffer |-> blob \o <<CountByte(Len(stack))>> \o stack,
        size |-> Len(blob) + 1 + Len(stack)]

\* buffer[i] (from 0); stale is what the buffer holds where nothing was written.
ByteAt(buf, i, stale) == IF i < Len(buf) THEN buf[i + 1] ELSE stale

\* Mutant: the stack is not cleared before it is read back.
array_clear_Keeps(stack) == stack

\* array_clear(&scanner->context_stack)
array_clear(stack) == <<>>

\* Mutant: the tags are read from the count byte on, one byte early.
array_extend_Early(stack, buf, from, count, stale) ==
  stack \o [k \in 1..count |-> ByteAt(buf, from + k - 2, stale)]

\* array_extend(&context_stack, count, &buffer[from]).
array_extend(stack, buf, from, count, stale) ==
  stack \o [k \in 1..count |-> ByteAt(buf, from + k - 1, stale)]

\* tree_sitter_razor_external_scanner_deserialize: the stack is cleared first,
\* then read back; csin is the part of the buffer handed to the C# scanner.
deserialize(stack, buf, length, stale) ==
  LET cleared == array_clear(stack) IN
  IF length = 0
  THEN [stack |-> cleared, cs |-> CSharpDeserialize(buf, 0), csin |-> <<>>]
  ELSE LET interp_count == ByteAt(buf, 1, stale)
           csharp_size == 2 + interp_count * 4
           csbuf == [k \in 1..csharp_size |-> ByteAt(buf, k - 1, stale)]
       IN [stack |-> IF length > csharp_size
                     THEN array_extend(cleared, buf, csharp_size + 1,
                                       ByteAt(buf, csharp_size, stale), stale)
                     ELSE cleared,
           cs |-> CSharpDeserialize(csbuf, csharp_size),
           csin |-> csbuf]

\* ------------------------------------------------------------------------
\* Bounds of the model
\* ------------------------------------------------------------------------

\* Longest document drawn from the alphabet.
MaxLen == 2

\* Most kinds admissible at once (besides all twelve, as in error recovery).
MaxValid == 2

Alphabet == {Ord[c] : c \in {"@", "{", "}", "(", ")", " ", "a", "/"}}

RECURSIVE StringsUpTo(_)
StringsUpTo(n) ==
  IF n = 0 THEN {<<>>}
  ELSE LET shorter == StringsUpTo(n - 1) IN
       shorter \cup {Append(w, c) : w \in {x \in shorter : Len(x) = n - 1}, c \in Alphabet}

\* The end-to-end document @{ int x = 1; } and other documents of interest.
CodeBlockDoc ==
  Str(<<"@", "{", " ", "i", "n", "t", " ", "x", " ", "=", " ", "1", ";", " ", "}">>)

NamedDocs ==
  { CodeBlockDoc,
    Str(<<"@", "(", "a", " ", ")">>),
    Str(<<"@", "{", "a", "@", "a", "}">>),
    Str(<<"@", "{", "\n", "/", "/", "a", "\n", "}">>),
    Str(<<"@", "{", "/", "*", "a", "*", "/", "}">>),
    Str(<<"@", "{", "#", "a", "\n", "}">>),
    Str(<<"{", " ", "@", "(", " ", ")", " ", "}">>),
    Str(<<"@", "{", "@", "(", ")", "}">>),
    Str(<<"@", "{", " ", ")", "}">>),
    Str(<<"@", "(", "\t", "}", ")">>),
    Str(<<")", " ", "@", "{">>),
    Str(<<"#", "a">>),
    Str(<<"/", "*", "a">>),
    Str(<<"a", "@", "a">>),
    Str(<<"a", " ", "}">>) }

Docs == StringsUpTo(MaxLen) \cup NamedDocs

\* The admissible-symbols sets the host passes.
RECURSIVE KindSetsUpTo(_)
KindSetsUpTo(n) ==
  IF n = 0 THEN {{}}
  ELSE LET fewer == KindSetsUpTo(n - 1) IN
       fewer \cup {v \cup {k} : v \in fewer, k \in RazorKinds}

ValidSets == KindSetsUpTo(MaxValid) \cup {RazorKinds}

\* ------------------------------------------------------------------------
\* State
\* ------------------------------------------------------------------------

VARIABLES
  doc,             \* the document the host parses
  pos,             \* the host's cursor
  context_stack,   \* scanner->context_stack
  csharp_scanner,  \* scanner->csharp_scanner, as the C# scanner observes it
  call,            \* the scan call that returned and the host has not taken yet
  trace,           \* the tokens of this scanner's own kinds committed so far
  buffer,          \* the serialization buffer, as far as it was written
  length,          \* the length the last serialize returned
  saved,           \* the stack and the C# state the last serialize was called on
  restored         \* the last deserialize: its arguments and what it produced

vars == <<doc, pos, context_stack, csharp_scanner, call, trace, buffer, length, saved,
          restored>>

NoCall == [op |-> "none"]

NoRestore == [op |-> "none"]

NoSave == [op |-> "none"]

\* The answers of the C# scanner to a delegated call: it declines, or commits
\* a token of one of its own kinds over the next character.
SubDeclines(cs) == [ret |-> FALSE, sym |-> NoSymbol, len |-> 0, cs |-> cs]

SubAnswers(cs) ==
  {SubDeclines(cs)}
  \cup {[ret |-> TRUE, sym |-> k, len |-> 1, cs |-> cs] : k \in {0, CSHARP_TOKEN_COUNT - 1}}

\* tree_sitter_razor_external_scanner_create
Init ==
  /\ doc \in Docs
  /\ pos = 0
  /\ context_stack = <<>>
  /\ csharp_scanner = CSharpCreate
  /\ call = NoCall
  /\ trace = <<>>
  /\ buffer = <<>>
  /\ length = 0
  /\ saved = NoSave
  /\ restored = NoRestore

\* The record of a scan call: its arguments, the state before it and its outcome.
CallRecord(valid, r, a, h, sub) ==
  [op |-> "scan", start |-> pos, valid |-> valid, before |-> context_stack,
   ret |-> r.ret, sym |-> r.sym, delegated |-> r.delegated,
   tokStart |-> r.lx.start, tokEnd |-> TokenEnd(r.lx), cur |-> r.lx.pos,
   afterText |-> a.lx.pos, afterHtml |-> h.lx.pos,
   textFound |-> a.found, htmlContent |-> h.has_content,
   htmlKeyword |-> h.found_keyword, sub |-> sub]

\* One call of tree_sitter_razor_external_scanner_scan by the host. The C# scanner
\* answers only a call that reaches it.
ScanWith(valids) ==
  /\ call = NoCall
  /\ \E valid \in valids :
       LET a == LiteralAtFamily(doc, NewLexer(pos), context_stack, valid)
           h == HtmlTextFamily(doc, a.lx, context_stack, valid)
           own == scan(doc, pos, context_stack, csharp_scanner, valid,
                       SubDeclines(csharp_scanner))
       IN \E sub \in (IF own.delegated THEN SubAnswers(csharp_scanner)
                      ELSE {SubDeclines(csharp_scanner)}) :
            LET r == IF own.delegated
                     THEN scan(doc, pos, context_stack, csharp_scanner, valid, sub)
                     ELSE own
            IN /\ context_stack' = r.stack
               /\ csharp_scanner' = r.cs
               /\ call' = CallRecord(valid, r, a, h, sub)
               /\ trace' = IF r.ret /\ r.sym \in RazorKinds
                           THEN Append(trace, [sym |-> r.sym, before |-> context_stack,
                                               after |-> r.stack])
                           ELSE trace
  /\ UNCHANGED <<doc, pos, buffer, length, saved, restored>>

Scan == ScanWith(ValidSets)

\* The host takes the outcome: a committed token ends at its marked end and
\* the cursor moves there; after a decline the cursor is where the call began.
HostTake ==
  /\ call # NoCall
  /\ pos' = IF call.ret THEN call.tokEnd ELSE pos
  /\ call' = NoCall
  /\ UNCHANGED <<doc, context_stack, csharp_scanner, trace, buffer, length, saved, restored>>

\* The host's own lexer consumes one character.
HostLex ==
  /\ call = NoCall
  /\ pos < Len(doc)
  /\ pos' = pos + 1
  /\ UNCHANGED <<doc, context_stack, csharp_scanner, call, trace, buffer, length, saved,
               restored>>

Next == Scan \/ HostTake \/ HostLex

Spec == Init /\ [][Next]_vars

\* ------------------------------------------------------------------------
\* Serializing and deserializing stacks of every size the buffer takes
\* ------------------------------------------------------------------------

\* Deepest stack drawn.
MaxDepth == 1022

\* The depths drawn: the shallow ones, those around each multiple of 256
\* (where the count byte wraps) and those around the buffer's capacity.
Depths ==
  {d \in 0..MaxDepth :
     \/ d <= 3
     \/ d % ByteMod <= 1
     \/ d % ByteMod >= ByteMod - 2
     \/ d + 5 >= TREE_SITTER_SERIALIZATION_BUFFER_SIZE}

\* Stacks of depth d: all braces, all parentheses, the two alternating.
StacksOfDepth(d) ==
  { [i \in 1..d |-> CONTEXT_CSHARP_BRACE],
    [i \in 1..d |-> CONTEXT_CSHARP_PAREN],
    [i \in 1..d |-> IF i % 2 = 1 THEN CONTEXT_CSHARP_BRACE ELSE CONTEXT_CSHARP_PAREN] }

\* The interpolation depths of the C# scanner drawn: N is one byte.
InterpCounts == {0, 1, 191, 192, ByteMod - 1}

\* A C# scanner state with n open interpolations.
CSharpState(q, n) == [quote |-> q, interp |-> [i \in 1..(4 * n) |-> (7 * i) % ByteMod]]

SerDocs == {Str(<<"{">>)}

SerValidSets == {{RAZOR_BLOCK_OPEN, CSHARP_CONTEXT_CLOSE}}

InitSer ==
  /\ doc \in SerDocs
  /\ pos = 0
  /\ context_stack \in UNION {StacksOfDepth(d) : d \in Depths}
  /\ csharp_scanner \in {CSharpState(1, n) : n \in InterpCounts}
  /\ call = NoCall
  /\ trace = <<>>
  /\ buffer = <<>>
  /\ length = 0
  /\ saved = NoSave
  /\ restored = NoRestore

\* The host calls tree_sitter_razor_external_scanner_serialize.
Serialize ==
  /\ call = NoCall
  /\ LET r == serialize(context_stack, csharp_scanner) IN
       /\ buffer' = r.buffer
       /\ length' = r.size
  /\ saved' = [op |-> "serialize", stack |-> context_stack, cs |-> csharp_scanner]
  /\ restored' = NoRestore
  /\ UNCHANGED <<doc, pos, context_stack, csharp_scanner, call, trace>>

\* The host calls tree_sitter_razor_external_scanner_deserialize with the buffer
\* and length serialize produced, or with length 0 (a parse that starts afresh).
Deserialize ==
  /\ call = NoCall
  /\ \E source \in {"saved", "reset"} : \E stale \in {0, ByteMod - 1} :
       LET len == IF source = "saved" THEN length ELSE 0
           r == deserialize(context_stack, buffer, len, stale)
       IN /\ source = "saved" => saved # NoSave
          /\ context_stack' = r.stack
          /\ csharp_scanner' = r.cs
          /\ restored' = [op |-> "deserialize", source |-> source, length |-> len,
                          before |-> context_stack, stack |-> r.stack,
                          cs |-> r.cs, csin |-> r.csin]
  /\ UNCHANGED <<doc, pos, call, trace, buffer, length, saved>>

SerScan == ScanWith(SerValidSets)

NextSer == Serialize \/ Deserialize \/ SerScan \/ HostTake

SpecSer == InitSer /\ [][NextSer]_vars

\* ------------------------------------------------------------------------
\* Markup text: the documents of the two text families
\* ------------------------------------------------------------------------

\* A letter of the Latin-1 Supplement and one of Latin Extended-A, as the
\* classifier's tables have them.
E_ACUTE == 233
T_CARON == 357

MarkupDocs ==
  { Str(<<"a", "@", "b">>),
    Str(<<"x", " ", "a", "@", "b", ".", "c", "-", "a", " ", "e">>),
    Str(<<"a", "_", "@", "b">>),
    Str(<<"a", "@", "_", "b">>),
    Str(<<"1", "@", "9", "_">>),
    <<E_ACUTE, AT, T_CARON>>,
    Str(<<"a", "@", "b", "@", "c">>),
    Str(<<"a", " ", "@", "b">>),
    Str(<<"a", "@", " ">>),
    Str(<<"a", "@", "{">>),
    Str(<<"a", ".", "b", "@", "{">>),
    Str(<<"a", "(", "@", "b">>),
    Str(<<"a", "<", "a", "@", "b">>),
    Str(<<"a", "\"", "[", "'">>),
    Str(<<"e", "l", "s", "e", " ", "f", "o", "o">>),
    Str(<<"c", "a", "t", "c", "h", "(", "x", ")">>),
    Str(<<"f", "i", "n", "a", "l", "l", "y", "{">>),
    Str(<<"e", "l", "s", "e", "@", "{">>),
    Str(<<"e", "l", "s", "e">>),
    Str(<<"x", " ", "e", "l", "s", "e", " ", "f", "o", "o">>),
    Str(<<" ", "\t", "e", "l", "s", "e", " ", "f", "o", "o">>),
    Str(<<"x", "\n", "e", "l", "s", "e", "{">>),
    Str(<<"e", "l", "s", "e", "x", " ">>),
    Str(<<"e", "l", "s", "e", "_">>),
    Str(<<"f", "i", "n", "a", "l", "l", "y", "x">>),
    Str(<<"e", " ", "c", ".">>),
    Str(<<"@", "{", "/", "a", "}">>),
    Str(<<"@", "(", "#", "a", ")">>),
    Str(<<"@", "{", "/", "/", "a">>),
    Str(<<"@", "a">>) }

InitMarkup ==
  /\ doc \in MarkupDocs
  /\ pos = 0
  /\ context_stack = <<>>
  /\ csharp_scanner = CSharpCreate
  /\ call = NoCall
  /\ trace = <<>>
  /\ buffer = <<>>
  /\ length = 0
  /\ saved = NoSave
  /\ restored = NoRestore

MarkupScan == ScanWith(ValidSets)

NextMarkup == MarkupScan \/ HostTake \/ HostLex

SpecMarkup == InitMarkup /\ [][NextMarkup]_vars

\* ------------------------------------------------------------------------
\* Raw content: the documents of the four raw-content families
\* ------------------------------------------------------------------------

RawKinds == {SCRIPT_CONTENT, STYLE_CONTENT, TITLE_CONTENT, TEXTAREA_CONTENT}

\* The tag name each raw-content family looks for.
TagName(sym) ==
  CASE sym = SCRIPT_CONTENT -> Str(<<"s", "c", "r", "i", "p", "t">>)
    [] sym = STYLE_CONTENT -> Str(<<"s", "t", "y", "l", "e">>)
    [] sym = TITLE_CONTENT -> Str(<<"t", "i", "t", "l", "e">>)
    [] sym = TEXTAREA_CONTENT -> Str(<<"t", "e", "x", "t", "a", "r", "e", "a">>)

\* The first n letters of a tag name in every mix of upper and lower case.
RECURSIVE CaseVariants(_, _)
CaseVariants(tag, n) ==
  IF n = 0 THEN {<<>>}
  ELSE {Append(v, c) : v \in CaseVariants(tag, n - 1), c \in {tag[n], tag[n] - 32}}

\* abc</V>rest for a case variant V of a tag name.
ClosedDoc(v) ==
  Str(<<"a", "b", "c", "<", "/">>) \o v \o Str(<<">", "r", "e", "s", "t">>)

ClosedDocs ==
  UNION {{ClosedDoc(v) : v \in CaseVariants(TagName(k), Len(TagName(k)))} : k \in RawKinds}

RawDocs ==
  ClosedDocs \cup
  { <<>>,
    Str(<<"a", "b">>),
    Str(<<"<">>),
    Str(<<"<", "b", ">", "x">>),
    Str(<<"<", "/", "x">>),
    Str(<<"<", "/", "s", "c", "r", "i", "p", "t", ">">>),
    Str(<<"<", "/", "S", "t", "y", "l", "e">>),
    Str(<<"<", "/", "t", "i", "t", "l", "e", ">">>),
    Str(<<"<", "/", "T", "e", "x", "t", "a", "r", "e", "a", ">">>),
    Str(<<"a", "<", "b", "<", "/", "s", "c", "r", "i", "p", "t", ">">>),
    Str(<<"a", "<", "/", "s", "<", "/", "s", "c", "r", "i", "p", "t", ">", "x">>),
    Str(<<"a", "<", "/", "s", "c", "r">>),
    Str(<<"a", "<", "<", "/", "s", "t", "y", "l", "e", ">">>),
    Str(<<"a", "<", "/", " ", "s", "c", "r", "i", "p", "t", ">", "<", "/", "S", "C", "R", "I", "P", "T">>),
    Str(<<"a", "<", "/", "s", "c", "r", "i", "p", "t", "x">>),
    Str(<<"a", "<", "/", "s", "t", "y", "l", "<", "/", "s", "t", "y", "l", "e", ">">>),
    Str(<<"a", "<", "/", "t", "i", "t", "l", "e", ">", "<", "/", "t", "i", "t", "l", "e", ">">>),
    Str(<<"a", "<", " ", "/", "t", "i", "t", "l", "e", ">">>),
    Str(<<"a", "<", "/", "t", "e", "x", "t", "<", "/", "T", "E", "X", "T", "A", "R", "E", "A">>),
    Str(<<"\"", "a", "<", "/", "s", "t", "y", "l", "e", ">">>),
    Str(<<" ", "{", " ", "a", "<", "/", "t", "i", "t", "l", "e", ">">>) }

\* The admissible-symbols sets of the raw-content calls: one raw kind, alone,
\* with an earlier raw kind, with a text kind, with RAZOR_BLOCK_OPEN; all kinds.
RawValidSets ==
  {{k} : k \in RawKinds}
  \cup {{SCRIPT_CONTENT, k} : k \in RawKinds}
  \cup {{TITLE_CONTENT, TEXTAREA_CONTENT}}
  \cup {{TEXT_WITH_LITERAL_AT, k} : k \in RawKinds}
  \cup {{HTML_TEXT_CONTENT, k} : k \in RawKinds}
  \cup {{RAZOR_BLOCK_OPEN, k} : k \in RawKinds}
  \cup {RazorKinds}

InitRaw ==
  /\ doc \in RawDocs
  /\ pos = 0
  /\ context_stack \in {<<>>, <<CONTEXT_CSHARP_BRACE>>}
  /\ csharp_scanner = CSharpCreate
  /\ call = NoCall
  /\ trace = <<>>
  /\ buffer = <<>>
  /\ length = 0
  /\ saved = NoSave
  /\ restored = NoRestore

RawScan == ScanWith(RawValidSets)

NextRaw == RawScan \/ HostTake

SpecRaw == InitRaw /\ [][NextRaw]_vars

\* ------------------------------------------------------------------------
\* Reading the record of a returned call
\* ------------------------------------------------------------------------

Returned == call # NoCall

\* The document holds the characters w at position p.
LookingAt(p, w) ==
  p + Len(w) <= Len(doc) /\ SubSeq(doc, p + 1, p + Len(w)) = w

\* The first position at or after p that holds no whitespace.
RECURSIVE PastSpace(_)
PastSpace(p) ==
  IF p < Len(doc) /\ iswspace(doc[p + 1]) THEN PastSpace(p + 1) ELSE p

\* The character the call finds after optional whitespace.
CharPastSpace == LET q == PastSpace(call.start) IN
                 IF q < Len(doc) THEN doc[q + 1] ELSE EndMarker

Committed(sym) == Returned /\ call.ret /\ call.sym = sym

TraceKinds == [i \in 1..Len(trace) |-> trace[i].sym]

OpenKinds == {CSHARP_CODE_BLOCK_START, CSHARP_EXPLICIT_EXPR_START, RAZOR_BLOCK_OPEN}

\* ------------------------------------------------------------------------
\* C1
\* ------------------------------------------------------------------------

\* A call at @{ (at @( ) over an empty stack with its kind admissible commits it
\* and pushes exactly one tag.
C1_Opens ==
  Returned /\ call.before = <<>> =>
    /\ (LookingAt(call.start, <<AT, LBRACE>>) /\ CSHARP_CODE_BLOCK_START \in call.valid
          => /\ Committed(CSHARP_CODE_BLOCK_START)
             /\ context_stack = <<CONTEXT_CSHARP_BRACE>>)
    /\ (LookingAt(call.start, <<AT, LPAREN>>) /\ CSHARP_EXPLICIT_EXPR_START \in call.valid
          => /\ Committed(CSHARP_EXPLICIT_EXPR_START)
             /\ context_stack = <<CONTEXT_CSHARP_PAREN>>)

\* A call at optional whitespace and the matching closer, at depth 1 with
\* CSHARP_CONTEXT_CLOSE admissible, commits it and empties the stack.
C1_Closes ==
  Returned /\ CSHARP_CONTEXT_CLOSE \in call.valid =>
    /\ (call.before = <<CONTEXT_CSHARP_BRACE>> /\ CharPastSpace = RBRACE
          => Committed(CSHARP_CONTEXT_CLOSE) /\ context_stack = <<>>)
    /\ (call.before = <<CONTEXT_CSHARP_PAREN>> /\ CharPastSpace = RPAREN
          => Committed(CSHARP_CONTEXT_CLOSE) /\ context_stack = <<>>)

\* On @{ int x = 1; } a run of own tokens that starts with the block start and
\* reaches the close is those two tokens, and the stack is empty after it.
C1_EndToEnd ==
  (doc = CodeBlockDoc /\ trace # <<>>
     /\ trace[1].sym = CSHARP_CODE_BLOCK_START
     /\ trace[Len(trace)].sym = CSHARP_CONTEXT_CLOSE)
  => /\ TraceKinds = <<CSHARP_CODE_BLOCK_START, CSHARP_CONTEXT_CLOSE>>
     /\ context_stack = <<>>

\* C1: from an empty Mode Stack, @{ commits CSHARP_CODE_BLOCK_START and pushes
\* one BraceRegion, a later call at optional whitespace and } at depth 1 commits
\* CSHARP_CONTEXT_CLOSE and empties the stack, symmetrically for @( and ), and
\* @{ int x = 1; } yields the two tokens with the stack empty at the end.
C1_OpenThenClose == C1_Opens /\ C1_Closes /\ C1_EndToEnd

\* The end-to-end run: the close was committed from the whitespace before }.
C1_Witness ==
  /\ doc = CodeBlockDoc
  /\ Committed(CSHARP_CONTEXT_CLOSE)
  /\ call.start = Len(doc) - 2
  /\ TraceKinds = <<CSHARP_CODE_BLOCK_START, CSHARP_CONTEXT_CLOSE>>
  /\ context_stack = <<>>

\* ------------------------------------------------------------------------
\* C2
\* ------------------------------------------------------------------------

\* What a committed token of each kind does to the stack.
C2_Steps ==
  Returned /\ call.ret =>
    /\ call.sym \in {CSHARP_CODE_BLOCK_START, RAZOR_BLOCK_OPEN}
         => context_stack = Append(call.before, CONTEXT_CSHARP_BRACE)
    /\ call.sym = CSHARP_EXPLICIT_EXPR_START
         => context_stack = Append(call.before, CONTEXT_CSHARP_PAREN)
    /\ call.sym = CSHARP_CONTEXT_CLOSE
         => /\ Len(call.before) >= 1
            /\ context_stack = SubSeq(call.before, 1, Len(call.before) - 1)
    /\ call.sym \notin OpenKinds \cup {CSHARP_CONTEXT_CLOSE}
         => context_stack = call.before

\* The nesting depth the tokens i..j of the trace add, or -1 once it went below 0.
RECURSIVE Nesting(_, _, _)
Nesting(i, j, d) ==
  IF d < 0 THEN d
  ELSE IF i > j THEN d
  ELSE Nesting(i + 1, j,
               IF trace[i].sym \in OpenKinds THEN d + 1
               ELSE IF trace[i].sym = CSHARP_CONTEXT_CLOSE THEN d - 1
               ELSE d)

\* After a balanced run of tokens the stack is the one before the run.
C2_Balanced ==
  \A i \in 1..Len(trace) : \A j \in i..Len(trace) :
    Nesting(i, j, 0) = 0 => trace[j].after = trace[i].before

\* C2: an open token adds exactly one tag, CSHARP_CONTEXT_CLOSE removes exactly
\* one, every other commit leaves the stack alone; after any balanced sequence
\* of opens and closes the stack is what it was, and no close pops an empty stack.
C2_StackDiscipline == C2_Steps /\ C2_Balanced

\* A nested balanced run @{ @( ) } was scanned.
C2_Witness ==
  /\ TraceKinds = <<CSHARP_CODE_BLOCK_START, CSHARP_EXPLICIT_EXPR_START,
                    CSHARP_CONTEXT_CLOSE, CSHARP_CONTEXT_CLOSE>>
  /\ context_stack = <<>>

\* ------------------------------------------------------------------------
\* C3
\* ------------------------------------------------------------------------

\* The call finds, after optional whitespace, a closer that does not close the
\* top of the stack: any closer over an empty stack, ) over a BraceRegion,
\* } over a ParenRegion.
Mismatched ==
  /\ Returned
  /\ \/ call.before = <<>> /\ CharPastSpace \in {RBRACE, RPAREN}
     \/ /\ call.before # <<>>
        /\ \/ /\ call.before[Len(call.before)] = CONTEXT_CSHARP_BRACE
              /\ CharPastSpace = RPAREN
           \/ /\ call.before[Len(call.before)] = CONTEXT_CSHARP_PAREN
              /\ CharPastSpace = RBRACE

\* The committed token of one of this scanner's kinds holds the closer.
CloserInToken ==
  /\ call.ret /\ call.sym \in RazorKinds
  /\ call.tokStart <= PastSpace(call.start) /\ PastSpace(call.start) < call.tokEnd

\* CSHARP_CONTEXT_CLOSE is committed only over a non-empty stack whose top the
\* closing character matches.
C3_PopsOnlyOnMatch ==
  Committed(CSHARP_CONTEXT_CLOSE) =>
    /\ call.before # <<>>
    /\ CloseMatches(call.before[Len(call.before)], CharPastSpace)

C4_NoExtrasInMarkup ==
  Returned /\ call.before = <<>> =>
    call.sym \notin {CSHARP_COMMENT, CSHARP_PREPROC}

\* A call over an empty stack met // with the comment admissible.
C4_Witness ==
  /\ Returned /\ call.before = <<>>
  /\ CSHARP_COMMENT \in call.valid
  /\ LookingAt(call.start, <<SLASH, SLASH>>)

\* ------------------------------------------------------------------------
\* C5
\* ------------------------------------------------------------------------

\* C5: a scan call made while the Mode Stack is non-empty never commits
\* TEXT_WITH_LITERAL_AT or HTML_TEXT_CONTENT, and the cursor is where the call
\* began after each of the two families.
C5_NoMarkupInCode ==
  Returned /\ call.before # <<>> =>
    /\ call.sym \notin {TEXT_WITH_LITERAL_AT, HTML_TEXT_CONTENT}
    /\ call.afterText = call.start
    /\ call.afterHtml = call.start

\* Inside @{ a call met a@a with both text kinds admissible.
C5_Witness ==
  /\ Returned /\ call.before = <<CONTEXT_CSHARP_BRACE>>
  /\ call.valid = {TEXT_WITH_LITERAL_AT, HTML_TEXT_CONTENT}
  /\ LookingAt(call.start, Str(<<"a", "@", "a">>))

\* ------------------------------------------------------------------------
\* C6
\* ------------------------------------------------------------------------

\* C6: a kind of this scanner recorded by a committing call was admissible in
\* that call.
C6_OnlyAdmissible ==
  Returned /\ call.ret /\ call.sym \in RazorKinds => call.sym \in call.valid

\* @( was committed while CSHARP_CODE_BLOCK_START was the other admissible kind.
C6_Witness ==
  /\ Committed(CSHARP_EXPLICIT_EXPR_START)
  /\ call.valid = {CSHARP_CODE_BLOCK_START, CSHARP_EXPLICIT_EXPR_START}

\* ------------------------------------------------------------------------
\* Reading the records of serialize and deserialize
\* ------------------------------------------------------------------------

Serialized == saved # NoSave

\* The blob the C# scanner wrote for the state serialize was called on.
SavedBlob == CSharpSerialize(saved.cs)

\* What the Razor state needs in the buffer behind the blob.
SavedTotal == Len(SavedBlob) + 1 + Len(saved.stack)

\* The last deserialize was given the buffer and length serialize produced.
RoundTrip == restored.op = "deserialize" /\ restored.source = "saved"

\* The round trip gave back the stack and handed the C# scanner its blob.
Reproduced ==
  /\ restored.stack = saved.stack
  /\ restored.csin = SavedBlob
  /\ restored.cs = saved.cs

\* ------------------------------------------------------------------------
\* C7
\* ------------------------------------------------------------------------

\* C7 as claimed: for a stack of depth 0 to 255 and any C# scanner state,
\* serialize then deserialize reproduces the stack and hands the C# scanner
\* the blob it serialized.
C7_Original ==
  RoundTrip /\ Len(saved.stack) <= ByteMod - 1 => Reproduced

\* C7 as amended: the same, for the stacks and C# scanner states whose blob
\* length + 1 + depth does not exceed the buffer's capacity.
C7_RoundTrip ==
  RoundTrip /\ Len(saved.stack) <= ByteMod - 1
            /\ SavedTotal <= TREE_SITTER_SERIALIZATION_BUFFER_SIZE
    => Reproduced

\* A stack of depth 255 behind a blob with interpolations came back, over a
\* stack that was empty before the call.
C7_Witness ==
  /\ RoundTrip
  /\ Len(saved.stack) = ByteMod - 1
  /\ Len(saved.cs.interp) > 0
  /\ restored.before = <<>>
  /\ Reproduced

\* ------------------------------------------------------------------------
\* C8
\* ------------------------------------------------------------------------

\* C8: serialize returns 0 when blob length + 1 + depth exceeds the capacity,
\* and then the buffer holds no byte of the stack; otherwise the length it
\* returns does not exceed the capacity.
C8_Overflow ==
  Serialized =>
    IF SavedTotal > TREE_SITTER_SERIALIZATION_BUFFER_SIZE
    THEN length = 0 /\ buffer = SavedBlob
    ELSE length > 0 /\ length <= TREE_SITTER_SERIALIZATION_BUFFER_SIZE

\* A stack one entry too deep for what the blob leaves was refused.
C8_Witness ==
  /\ Serialized
  /\ SavedTotal = TREE_SITTER_SERIALIZATION_BUFFER_SIZE + 1
  /\ length = 0

\* ------------------------------------------------------------------------
\* C9
\* ------------------------------------------------------------------------

\* C9: when serialize succeeds the buffer is the blob (2+4N bytes), one byte
\* equal to the depth, then the depth tags from bottom to top, and the length
\* returned is blob length + 1 + depth.
C9_Format ==
  Serialized /\ length > 0 =>
    /\ Len(SavedBlob) = 2 + 4 * SavedBlob[2]
    /\ buffer = SavedBlob \o <<Len(saved.stack)>> \o saved.stack
    /\ length = SavedTotal

\* ------------------------------------------------------------------------
\* C10
\* ------------------------------------------------------------------------

\* The stack a buffer of the persisted format holds: the count byte behind the
\* blob and as many tags.
StackIn(buf) ==
  LET blob_size == 2 + 4 * buf[2] IN
  SubSeq(buf, blob_size + 2, blob_size + 1 + buf[blob_size + 1])

\* C10: what deserialize leaves is determined by the buffer alone, whatever the
\* stack held before: a zero-length buffer gives an empty stack and the C#
\* scanner is re-initialized from an empty buffer; any other gives the stack
\* the buffer holds.
C10_BufferAlone ==
  restored.op = "deserialize" =>
    IF restored.length = 0
    THEN /\ restored.stack = <<>>
         /\ restored.csin = <<>>
         /\ restored.cs = CSharpCreate
    ELSE restored.stack = StackIn(buffer)

\* A zero-length buffer was deserialized over a stack that held tags.
C10_Witness ==
  /\ restored.op = "deserialize"
  /\ restored.length = 0
  /\ Len(restored.before) >= 2
  /\ restored.stack = <<>>

\* A buffer was deserialized over a stack that held other tags than the buffer.
C10_WitnessOther ==
  /\ restored.op = "deserialize"
  /\ restored.length > 0
  /\ restored.before # <<>>
  /\ restored.before # restored.stack
  /\ restored.stack # <<>>

\* ------------------------------------------------------------------------
\* Reading the text a call was made on
\* ------------------------------------------------------------------------

\* The positions (from 1) of the text the call was made on: the document from
\* the call's cursor.
TextIndexes == (call.start + 1)..Len(doc)

\* The text holds none of the characters c.
TextHasNone(cs) == \A i \in TextIndexes : doc[i] \notin cs

\* The positions of the @ signs of the text.
AtIndexes == {i \in TextIndexes : doc[i] = AT}

\* The only @ of the text.
TheAt == CHOOSE i \in AtIndexes : TRUE

\* A word character as the spec's classifier has it: letter, digit or underscore.
isWordChar(c) == is_identifier_char(c)

\* The end of the email-like run behind the @ at i: the word characters, '.'
\* and '-' that follow it.
RECURSIVE RunEnd(_)
RunEnd(i) ==
  IF i < Len(doc) /\ (isWordChar(doc[i + 1]) \/ doc[i + 1] \in {DOT, DASH})
  THEN RunEnd(i + 1)
  ELSE i

\* The call was made with TEXT_WITH_LITERAL_AT admissible over an empty stack on
\* a text without <, " and ' whose only @ stands between two characters of the
\* class Word.
EmailText(Word(_)) ==
  /\ Returned
  /\ TEXT_WITH_LITERAL_AT \in call.valid
  /\ call.before = <<>>
  /\ TextHasNone({LT, DQUOTE, SQUOTE})
  /\ Cardinality(AtIndexes) = 1
  /\ TheAt - 1 > call.start /\ TheAt + 1 <= Len(doc)
  /\ Word(doc[TheAt - 1]) /\ Word(doc[TheAt + 1])

\* TEXT_WITH_LITERAL_AT was committed from the call's cursor at least through
\* the email-like run.
SpansEmailRun ==
  /\ Committed(TEXT_WITH_LITERAL_AT)
  /\ call.tokStart = call.start
  /\ call.tokEnd >= RunEnd(TheAt)

\* ------------------------------------------------------------------------
\* C11
\* ------------------------------------------------------------------------

\* C11 as claimed: on a text without <, " and ' whose only @ has a word
\* character (letter, digit or underscore) on both sides, the call commits
\* TEXT_WITH_LITERAL_AT from its cursor at least through the email-like run.
C11_Original == EmailText(isWordChar) => SpansEmailRun

\* C11 as amended: the same for the texts whose only @ has a letter or a digit
\* on both sides; an underscore next to the @ does not make it literal.
C11_LiteralAt == EmailText(is_email_char) => SpansEmailRun

\* x a@b.c-a e was scanned from its start and committed whole.
C11_Witness ==
  /\ EmailText(is_email_char)
  /\ call.start = 0
  /\ doc = Str(<<"x", " ", "a", "@", "b", ".", "c", "-", "a", " ", "e">>)
  /\ SpansEmailRun
  /\ call.tokEnd = Len(doc)

\* ------------------------------------------------------------------------
\* C12
\* ------------------------------------------------------------------------

\* The call tried the literal-@ family and it found no literal @.
LiteralAtFoundNothing ==
  /\ Returned
  /\ TEXT_WITH_LITERAL_AT \in call.valid
  /\ call.before = <<>>
  /\ ~call.textFound

\* The outcome the same call has with TEXT_WITH_LITERAL_AT inadmissible.
WithoutLiteralAt ==
  scan(doc, call.start, call.before, csharp_scanner,
       call.valid \ {TEXT_WITH_LITERAL_AT}, call.sub)

\* The call's commit or decline, kind, token extent and Mode Stack are those of
\* the call without TEXT_WITH_LITERAL_AT.
SameOutcomeWithout ==
  LET w == WithoutLiteralAt IN
  /\ call.ret = w.ret
  /\ call.sym = w.sym
  /\ call.ret => call.tokStart = w.lx.start /\ call.tokEnd = TokenEnd(w.lx)
  /\ context_stack = w.stack

\* C12: when the literal-@ family finds no literal-@ run it leaves the cursor
\* where the call began, so the families tried after it see the lookahead of the
\* call's position and the call's outcome is the one it has with
\* TEXT_WITH_LITERAL_AT inadmissible.
C12_DeclinesUntouched ==
  LiteralAtFoundNothing =>
    /\ call.afterText = call.start
    /\ SameOutcomeWithout

\* ------------------------------------------------------------------------
\* C13
\* ------------------------------------------------------------------------

Keywords ==
  { Str(<<"e", "l", "s", "e">>),
    Str(<<"c", "a", "t", "c", "h">>),
    Str(<<"f", "i", "n", "a", "l", "l", "y">>) }

\* The document holds one of the keywords at position p, followed by a
\* character that is not a word character.
KeywordAt(p) ==
  \E k \in Keywords :
    /\ LookingAt(p, k)
    /\ p + Len(k) < Len(doc)
    /\ ~isWordChar(doc[p + Len(k) + 1])

\* C13: with HTML_TEXT_CONTENT admissible and the Mode Stack empty, a call whose
\* cursor is at else, catch or finally followed by a non-word character (the
\* start of a logical line, nothing accumulated before the keyword) does not
\* commit HTML_TEXT_CONTENT, and the call declines.
C13_KeywordRefused ==
  Returned /\ HTML_TEXT_CONTENT \in call.valid /\ call.before = <<>>
           /\ KeywordAt(call.start)
    => /\ ~Committed(HTML_TEXT_CONTENT)
       /\ ~call.ret

\* ------------------------------------------------------------------------
\* C14
\* ------------------------------------------------------------------------

XElseFoo == Str(<<"x", " ", "e", "l", "s", "e", " ", "f", "o", "o">>)

\* The characters HTML_TEXT_CONTENT stops at.
StopSet == {LT, AT, DOT, LBRACKET, LPAREN, DQUOTE, SQUOTE}

\* Position p, behind the call's cursor, is at a logical line start of the
\* scan: only spaces and tabs lie between it and the call's cursor or the
\* newline before it.
AtLineStart(p) ==
  \E q \in call.start..p :
    /\ q = call.start \/ doc[q] \in {LF, CR}
    /\ \A i \in (q + 1)..p : doc[i] \in {SPACE, TAB}

\* A keyword followed by a non-word character stands at position p, at a
\* logical line start.
LineStartKeyword(p) == KeywordAt(p) /\ AtLineStart(p)

\* Position p holds the first such keyword of the text, behind content that
\* has no character of the stop set.
HeldBackAt(p) ==
  /\ p > call.start
  /\ LineStartKeyword(p)
  /\ \A i \in (call.start + 1)..p : doc[i] \notin StopSet
  /\ \A q \in call.start..(p - 1) : ~LineStartKeyword(q)

\* The call was made with HTML_TEXT_CONTENT admissible over an empty stack.
HtmlCall == Returned /\ HTML_TEXT_CONTENT \in call.valid /\ call.before = <<>>

\* C14 as claimed: scanning x else foo commits HTML_TEXT_CONTENT covering "x "
\* only; the token ends immediately before the keyword.
C14_Original ==
  HtmlCall /\ doc = XElseFoo /\ call.start = 0
    => /\ Committed(HTML_TEXT_CONTENT)
       /\ call.tokStart = 0
       /\ call.tokEnd = 2

\* C14 as amended: with TEXT_WITH_LITERAL_AT not admissible, scanning x else foo
\* commits HTML_TEXT_CONTENT covering the whole text, else not being at a
\* logical line start; a keyword at a logical line start behind accumulated
\* content ends the token immediately before it.
C14_HeldBackAtLineStart ==
  HtmlCall /\ TEXT_WITH_LITERAL_AT \notin call.valid =>
    /\ doc = XElseFoo /\ call.start = 0
         => /\ Committed(HTML_TEXT_CONTENT)
            /\ call.tokStart = 0
            /\ call.tokEnd = Len(doc)
    /\ \A p \in call.start..Len(doc) :
         HeldBackAt(p) => /\ Committed(HTML_TEXT_CONTENT)
                          /\ call.tokStart = call.start
                          /\ call.tokEnd = p

\* x, a newline and else{ were scanned from the start: the token is "x\n".
C14_Witness ==
  /\ HtmlCall /\ TEXT_WITH_LITERAL_AT \notin call.valid
  /\ doc = Str(<<"x", "\n", "e", "l", "s", "e", "{">>)
  /\ call.start = 0
  /\ HeldBackAt(2)
  /\ Committed(HTML_TEXT_CONTENT)
  /\ call.tokEnd = 2

\* ------------------------------------------------------------------------
\* C15
\* ------------------------------------------------------------------------

\* C15: a committed HTML_TEXT_CONTENT token, the text from the call's cursor to
\* the marked end, holds none of the stop-set characters < @ . [ ( " '.
C15_NoStopCharInToken ==
  Committed(HTML_TEXT_CONTENT) =>
    \A i \in (call.start + 1)..call.tokEnd : doc[i] \notin StopSet

\* ------------------------------------------------------------------------
\* C16
\* ------------------------------------------------------------------------

\* The document is abc</V>rest for an upper/lower-case variant V of the tag
\* name of the kind k.
IsClosedDocOf(k) ==
  LET tag == TagName(k)
      n == Len(tag)
  IN /\ Len(doc) = 5 + n + 5
     /\ SubSeq(doc, 1, 5) = Str(<<"a", "b", "c", "<", "/">>)
     /\ \A i \in 1..n : doc[5 + i] \in {tag[i], tag[i] - 32}
     /\ SubSeq(doc, 6 + n, 10 + n) = Str(<<">", "r", "e", "s", "t">>)

\* The call committed the kind k with the content abc: the token ends
\* immediately before the <.
CommittedAbc(k) ==
  /\ Committed(k)
  /\ call.tokStart = 0
  /\ call.tokEnd = 3
  /\ doc[call.tokEnd + 1] = LT

\* No family before the raw-content family of the kind k takes the text or
\* moves the cursor: the two text families are not tried, and no raw-content
\* kind earlier in the order is admissible.
FirstToAct(k) ==
  /\ \/ call.before # <<>>
     \/ /\ TEXT_WITH_LITERAL_AT \notin call.valid
        /\ HTML_TEXT_CONTENT \notin call.valid
  /\ \A j \in RawKinds : j < k => j \notin call.valid

\* C16 as claimed: for each raw-content kind and every case variant V of its
\* tag name, scanning abc</V>rest with that kind admissible commits that kind
\* with the content abc, the token ending immediately before the <.
C16_Original ==
  \A k \in RawKinds :
    Returned /\ call.start = 0 /\ IsClosedDocOf(k) /\ k \in call.valid
      => CommittedAbc(k)

\* C16 as amended: the same when the kind's family is the first to act on the
\* text: no raw-content kind earlier in the order is admissible, and
\* TEXT_WITH_LITERAL_AT and HTML_TEXT_CONTENT are inadmissible or the Mode Stack
\* is not empty.
C16_ContentBeforeTag ==
  \A k \in RawKinds :
    Returned /\ call.start = 0 /\ IsClosedDocOf(k) /\ k \in call.valid
             /\ FirstToAct(k)
      => CommittedAbc(k)

\* abc</TExtarea>rest (the second letter in upper case) was scanned with
\* TEXTAREA_CONTENT alone admissible.
C16_Witness ==
  /\ Returned /\ call.start = 0
  /\ IsClosedDocOf(TEXTAREA_CONTENT)
  /\ doc[6] = TagName(TEXTAREA_CONTENT)[1] - 32
  /\ doc[7] = TagName(TEXTAREA_CONTENT)[2] - 32
  /\ doc[8] = TagName(TEXTAREA_CONTENT)[3]
  /\ call.valid = {TEXTAREA_CONTENT}
  /\ FirstToAct(TEXTAREA_CONTENT)
  /\ CommittedAbc(TEXTAREA_CONTENT)

\* ------------------------------------------------------------------------
\* The way of a call through the families, read from its record
\* ------------------------------------------------------------------------

\* The character at position p, as the lexer shows it.
CharAt(p) == IF p < Len(doc) THEN doc[p + 1] ELSE EndMarker

\* The cursor the `@{` / `@(` family and RAZOR_BLOCK_OPEN find: where the text
\* families left it.
CursorAtOpen == call.afterHtml

\* The cursor CSHARP_CONTEXT_CLOSE finds: past the whitespace RAZOR_BLOCK_OPEN
\* skipped.
CursorAtClose ==
  IF RAZOR_BLOCK_OPEN \in call.valid THEN PastSpace(CursorAtOpen) ELSE CursorAtOpen

\* The cursor the families after CSHARP_CONTEXT_CLOSE find: past the
\* whitespace it skipped.
CursorAtExtras ==
  IF CSHARP_CONTEXT_CLOSE \in call.valid /\ call.before # <<>>
  THEN PastSpace(CursorAtClose)
  ELSE CursorAtClose

TextPassed == ~call.textFound

HtmlPassed == ~call.htmlContent /\ ~call.htmlKeyword

\* The `@{` / `@(` family is entered: one of its kinds is admissible and the
\* lookahead is @.
AtEntered ==
  /\ CSHARP_CODE_BLOCK_START \in call.valid \/ CSHARP_EXPLICIT_EXPR_START \in call.valid
  /\ CharAt(CursorAtOpen) = AT

OpenPassed ==
  ~(RAZOR_BLOCK_OPEN \in call.valid /\ CharAt(CursorAtClose) = LBRACE)

ClosePassed ==
  ~(/\ CSHARP_CONTEXT_CLOSE \in call.valid
    /\ call.before # <<>>
    /\ \/ /\ call.before[Len(call.before)] = CONTEXT_CSHARP_BRACE
          /\ CharAt(CursorAtExtras) = RBRACE
       \/ /\ call.before[Len(call.before)] = CONTEXT_CSHARP_PAREN
          /\ CharAt(CursorAtExtras) = RPAREN)

\* The comment family is entered: admissible, in C# context, the lookahead is /.
CommentEntered ==
  /\ CSHARP_COMMENT \in call.valid
  /\ call.before # <<>>
  /\ CharAt(CursorAtExtras) = SLASH

PreprocEntered ==
  /\ CSHARP_PREPROC \in call.valid
  /\ call.before # <<>>
  /\ CharAt(CursorAtExtras) = HASH

\* Every family before the raw-content ones let the call pass.
ExtrasPassed ==
  /\ Returned
  /\ TextPassed /\ HtmlPassed /\ ~AtEntered /\ OpenPassed /\ ClosePassed
  /\ ~CommentEntered /\ ~PreprocEntered

\* The call reached the raw-content family of the kind k: the first admissible
\* raw-content kind in the order of the code.
RawReached(k) ==
  /\ ExtrasPassed
  /\ k \in call.valid
  /\ \A j \in RawKinds : j < k => j \notin call.valid

\* ------------------------------------------------------------------------
\* C17
\* ------------------------------------------------------------------------

\* C17: when a raw-content family is reached and its first lookahead is <, the
\* call declines: it commits nothing and does not consult the C# scanner,
\* whether or not the < begins the closing tag.
C17_DeclinesAtLt ==
  \A k \in RawKinds :
    RawReached(k) /\ CharAt(CursorAtExtras) = LT
      => /\ ~call.ret
         /\ call.sym = NoSymbol
         /\ ~call.delegated
         /\ context_stack = call.before

\* STYLE_CONTENT was reached at the < of <b>x, which begins no closing tag.
C17_Witness ==
  /\ RawReached(STYLE_CONTENT)
  /\ call.valid = {STYLE_CONTENT}
  /\ doc = Str(<<"<", "b", ">", "x">>)
  /\ call.start = 0
  /\ CharAt(CursorAtExtras) = LT
  /\ ~call.ret

\* ------------------------------------------------------------------------
\* C18
\* ------------------------------------------------------------------------

\* The first admissible raw-content kind, or NoSymbol.
FirstRawKind ==
  IF call.valid \cap RawKinds = {} THEN NoSymbol
  ELSE CHOOSE k \in call.valid \cap RawKinds :
         \A j \in call.valid \cap RawKinds : k <= j

\* The family that takes the call: the first, in the order of the code, that
\* finds what it looks for; "sub" is the C# scanner.
Decider ==
  IF ~TextPassed THEN "text"
  ELSE IF ~HtmlPassed THEN "html"
  ELSE IF AtEntered THEN "at"
  ELSE IF ~OpenPassed THEN "open"
  ELSE IF ~ClosePassed THEN "close"
  ELSE IF CommentEntered THEN "comment"
  ELSE IF PreprocEntered THEN "preproc"
  ELSE IF FirstRawKind # NoSymbol THEN "raw"
  ELSE "sub"

\* The family a kind of this scanner belongs to.
FamilyOf(sym) ==
  CASE sym = TEXT_WITH_LITERAL_AT -> "text"
    [] sym = HTML_TEXT_CONTENT -> "html"
    [] sym \in {CSHARP_CODE_BLOCK_START, CSHARP_EXPLICIT_EXPR_START} -> "at"
    [] sym = RAZOR_BLOCK_OPEN -> "open"
    [] sym = CSHARP_CONTEXT_CLOSE -> "close"
    [] sym = CSHARP_COMMENT -> "comment"
    [] sym = CSHARP_PREPROC -> "preproc"
    [] sym \in RawKinds -> "raw"

\* None of this scanner's own families committed a token in the call.
NoOwnCommit == Returned /\ ~(call.ret /\ call.sym \in RazorKinds)

\* The call asked the C# scanner and returned its answer.
FellThrough ==
  /\ call.delegated
  /\ call.ret = call.sub.ret
  /\ call.sym = call.sub.sym
  /\ context_stack = call.before

\* The families are tried in the order of the code: a committed kind belongs to
\* the first family that takes the call, a raw-content kind is the first
\* admissible one, and the C# scanner is asked only when no family takes it.
C18_Order ==
  /\ Returned /\ call.ret /\ call.sym \in RazorKinds
       => /\ FamilyOf(call.sym) = Decider
          /\ call.sym \in RawKinds => call.sym = FirstRawKind
  /\ Returned /\ call.delegated => Decider = "sub"

\* C18 as claimed: whenever no own family commits, the call falls through to
\* the C# scanner and returns its result; the families are tried in the fixed
\* order.
C18_Original ==
  /\ C18_Order
  /\ NoOwnCommit => FellThrough

\* C18 as amended: whenever no own family commits, the call either falls
\* through to the C# scanner and returns its result, or was declined outright
\* by the family that took it: HTML_TEXT_CONTENT at a keyword with no content,
\* the `@{` / `@(` family at an @ without its follow-up, the comment family at
\* a / alone, a raw-content family; the families are tried in the fixed order.
C18_FallsThroughOrDeclines ==
  /\ C18_Order
  /\ NoOwnCommit =>
       IF Decider = "sub"
       THEN FellThrough
       ELSE /\ Decider \in {"html", "at", "comment", "raw"}
            /\ Decider = "html" => call.htmlKeyword
            /\ ~call.ret /\ call.sym = NoSymbol /\ ~call.delegated
            /\ context_stack = call.before

\* A call that no own family took returned the token the C# scanner committed.
C18_Witness ==
  /\ NoOwnCommit
  /\ Decider = "sub"
  /\ call.valid # {}
  /\ FellThrough
  /\ call.ret /\ call.sym \in CSharpKinds

\* ------------------------------------------------------------------------
\* C19
\* ------------------------------------------------------------------------

\* The call's cursor is at an @ with one of the kinds of the `@{` / `@(` family
\* admissible, and what follows is neither an admissible { nor an admissible (.
AtWithoutFollowUp ==
  /\ Returned
  /\ CharAt(call.start) = AT
  /\ CSHARP_CODE_BLOCK_START \in call.valid \/ CSHARP_EXPLICIT_EXPR_START \in call.valid
  /\ ~(CSHARP_CODE_BLOCK_START \in call.valid /\ CharAt(call.start + 1) = LBRACE)
  /\ ~(CSHARP_EXPLICIT_EXPR_START \in call.valid /\ CharAt(call.start + 1) = LPAREN)

\* C19: a call that declines records no kind and leaves the Mode Stack as it
\* was; in particular a call at an @ followed by neither an admissible { nor an
\* admissible ( (or by end of input) declines, pushes nothing and commits
\* nothing.
C19_DeclineLeavesStack ==
  /\ Returned /\ ~call.ret
       => /\ call.sym = NoSymbol
          /\ context_stack = call.before
  /\ AtWithoutFollowUp
       => /\ ~call.ret
          /\ call.sym = NoSymbol
          /\ context_stack = call.before

\* A call at @( with only CSHARP_CODE_BLOCK_START admissible declined over a
\* stack that held a tag.
C19_Witness ==
  /\ AtWithoutFollowUp
  /\ LookingAt(call.start, <<AT, LPAREN>>)
  /\ call.valid = {CSHARP_CODE_BLOCK_START}
  /\ call.before # <<>>
  /\ ~call.ret
  /\ context_stack = call.before

\* ------------------------------------------------------------------------
\* C20
\* ------------------------------------------------------------------------

\* Position p holds "</" followed by all letters of the tag name of the kind k,
\* each in either case.
ClosingTagAt(k, p) ==
  /\ CharAt(p) = LT
  /\ CharAt(p + 1) = SLASH
  /\ \A i \in 1..Len(TagName(k)) :
       CharAt(p + 1 + i) \in {TagName(k)[i], TagName(k)[i] - 32}

\* The first position at or after q that holds the closing tag of k, or the
\* end of input.
FirstClose(k, q) ==
  LET closes == {p \in q..Len(doc) : ClosingTagAt(k, p)} IN
  IF closes = {} THEN Len(doc)
  ELSE CHOOSE p \in closes : \A r \in closes : p <= r

\* C20: a raw-content family reached at a character other than < commits its
\* kind from the call's token start to the first closing tag of its name (the
\* letters in either case, whatever follows them), or to the end of input when
\* there is none, so that every earlier <, "</" and partly matched name is
\* content; reached at the end of input it declines; a committed raw-content
\* token holds at least one character.
C20_EndsAtFirstClose ==
  \A k \in RawKinds :
    /\ RawReached(k) /\ CharAt(CursorAtExtras) # LT =>
         IF CursorAtExtras < Len(doc)
         THEN /\ Committed(k)
              /\ call.tokEnd = FirstClose(k, CursorAtExtras)
              /\ call.tokEnd > call.tokStart
              /\ \A p \in call.tokStart..(call.tokEnd - 1) : ~ClosingTagAt(k, p)
         ELSE ~call.ret
    /\ Committed(k) =>
         /\ RawReached(k) /\ CharAt(CursorAtExtras) # LT
         /\ call.tokEnd > call.tokStart

\* a</s</script>x was scanned for SCRIPT_CONTENT: the token is "a</s", the
\* partly matched tag included.
C20_Witness ==
  /\ RawReached(SCRIPT_CONTENT)
  /\ call.valid = {SCRIPT_CONTENT}
  /\ call.start = 0
  /\ LookingAt(0, Str(<<"a", "<", "/", "s", "<", "/", "s", "c", "r", "i", "p", "t">>))
  /\ Committed(SCRIPT_CONTENT)
  /\ call.tokEnd = 4

\* ------------------------------------------------------------------------
\* C# extras: the documents of the comment and preprocessor families
\* ------------------------------------------------------------------------

ExtrasDocs ==
  { Str(<<"@", "{", "/", "/", "a", "\n", "b", "}">>),
    Str(<<"@", "{", "/", "/", "a", "\r", "\n", "b">>),
    Str(<<"@", "{", "/", "/", "a", "/", "*">>),
    Str(<<"@", "(", "/", "/">>),
    Str(<<"@", "{", " ", "\t", "/", "/", "\r", "a">>),
    Str(<<"@", "{", "/", "*", "a", "*", "/", "b", "*", "/">>),
    Str(<<"@", "{", "/", "*", "/">>),
    Str(<<"@", "{", "/", "*", "/", "a", "*", "/", "}">>),
    Str(<<"@", "(", "/", "*", "*", "/", "a">>),
    Str(<<"@", "{", "/", "*", "*", "*", "/", "a">>),
    Str(<<"@", "{", "/", "*", "a", "*", "b", "/", "\n">>),
    Str(<<"@", "{", "/", "*", "a">>),
    Str(<<"@", "{", "/", "*">>),
    Str(<<"@", "{", "\n", "/", "*", "\n", "*", "/", "}">>),
    Str(<<"@", "{", "/", "a", "}">>),
    Str(<<"@", "{", "/">>),
    Str(<<"@", "(", "/", " ", "/", ")">>),
    Str(<<"@", "{", "#", "a", "\r", "\n", "b">>),
    Str(<<"@", "{", "#", "a", "\r", "b">>),
    Str(<<"@", "{", "#", "a", "\n", "b">>),
    Str(<<"@", "{", "#", "a", "\n", "\r", "b">>),
    Str(<<"@", "{", "#", "\r", "\r", "\n">>),
    Str(<<"@", "(", "#", "a", ")">>),
    Str(<<"@", "{", "#">>),
    Str(<<"@", "{", " ", "#", "/", "/", "\n", "}">>) }

InitExtras ==
  /\ doc \in ExtrasDocs
  /\ pos = 0
  /\ context_stack = <<>>
  /\ csharp_scanner = CSharpCreate
  /\ call = NoCall
  /\ trace = <<>>
  /\ buffer = <<>>
  /\ length = 0
  /\ saved = NoSave
  /\ restored = NoRestore

\* The admissible-symbols sets of the calls: CSHARP_COMMENT or CSHARP_PREPROC,
\* alone or with other kinds; all kinds.
ExtrasValidSets ==
  {v \cup {k} : v \in KindSetsUpTo(MaxValid - 1), k \in {CSHARP_COMMENT, CSHARP_PREPROC}}
  \cup {RazorKinds}

ExtrasScan == ScanWith(ExtrasValidSets)

NextExtras == ExtrasScan \/ HostTake \/ HostLex

SpecExtras == InitExtras /\ [][NextExtras]_vars

\* ------------------------------------------------------------------------
\* C21
\* ------------------------------------------------------------------------

\* The end of the line that holds position p: the first position at or after
\* p with a line feed or a carriage return, or the end of input.
LineEnd(p) ==
  CHOOSE q \in p..Len(doc) :
    /\ q = Len(doc) \/ doc[q + 1] \in {LF, CR}
    /\ \A j \in p..(q - 1) : doc[j + 1] \notin {LF, CR}

\* The position after the line terminator at e: \r\n, \r or \n, if any.
PastTerminator(e) ==
  IF LookingAt(e, <<CR, LF>>) THEN e + 2
  ELSE IF CharAt(e) \in {CR, LF} /\ e < Len(doc) THEN e + 1
  ELSE e

\* The positions at or after p where */ begins.
StarSlashFrom(p) == {q \in p..Len(doc) : LookingAt(q, <<STAR, SLASH>>)}

\* The end of the block comment whose body begins at p: right after the first
\* */ at or after p, or the end of input when there is none.
BlockEnd(p) ==
  IF StarSlashFrom(p) = {} THEN Len(doc)
  ELSE 2 + CHOOSE q \in StarSlashFrom(p) : \A j \in StarSlashFrom(p) : q <= j

\* The call committed the kind sym over the characters from a up to b, with
\* the Mode Stack as it was.
CommittedSpan(sym, a, b) ==
  /\ call.ret
  /\ call.sym = sym
  /\ call.tokStart = a
  /\ call.tokEnd = b
  /\ context_stack = call.before

\* C21: with the Mode Stack non-empty and CSHARP_COMMENT admissible, at // the
\* call commits CSHARP_COMMENT up to the first \n or \r or the end of input; at
\* /* it commits CSHARP_COMMENT through the first */ that begins at or after the
\* third character, or up to the end of input when there is none; at a / that
\* neither / nor * follows the call declines. With CSHARP_PREPROC admissible,
\* at # it commits CSHARP_PREPROC through the end of the line and its \r, \n
\* or \r\n terminator.
C21_ExtrasExtents ==
  Returned =>
    LET x == CursorAtExtras IN
    /\ CommentEntered /\ LookingAt(x, <<SLASH, SLASH>>)
         => CommittedSpan(CSHARP_COMMENT, x, LineEnd(x + 2))
    /\ CommentEntered /\ LookingAt(x, <<SLASH, STAR>>)
         => CommittedSpan(CSHARP_COMMENT, x, BlockEnd(x + 2))
    /\ CommentEntered /\ CharAt(x + 1) \notin {SLASH, STAR}
         => ~call.ret /\ call.sym = NoSymbol /\ context_stack = call.before
    /\ PreprocEntered
         => CommittedSpan(CSHARP_PREPROC, x, PastTerminator(LineEnd(x + 1)))

\* A line comment stopped before a \r, behind skipped whitespace.
C21_Witness ==
  /\ Returned
  /\ doc = Str(<<"@", "{", " ", "\t", "/", "/", "\r", "a">>)
  /\ call.start = 2
  /\ call.before = <<CONTEXT_CSHARP_BRACE>>
  /\ CommentEntered
  /\ CommittedSpan(CSHARP_COMMENT, 4, 6)

\* An unterminated block comment committed up to the end of input: in /*/ the
\* / is the third character and closes nothing.
C21_WitnessUnterminated ==
  /\ Returned
  /\ doc = Str(<<"@", "{", "/", "*", "/">>)
  /\ call.start = 2
  /\ CommentEntered
  /\ CommittedSpan(CSHARP_COMMENT, 2, 5)

\* A preprocessor line committed with its \r\n.
C21_WitnessPreproc ==
  /\ Returned
  /\ doc = Str(<<"@", "{", "#", "a", "\r", "\n", "b">>)
  /\ call.start = 2
  /\ PreprocEntered
  /\ CommittedSpan(CSHARP_PREPROC, 2, 6)

\* A / alone declined.
C21_WitnessSlashAlone ==
  /\ Returned
  /\ doc = Str(<<"@", "{", "/", "a", "}">>)
  /\ call.start = 2
  /\ CommentEntered
  /\ ~call.ret

\* ------------------------------------------------------------------------
\* A scan call step by step: one step per loop iteration
\* ------------------------------------------------------------------------

\* The scan call in progress is held in call: pc names the loop whose head
\* the call stands at, lx is the lexer, the other fields are the locals of
\* the code; outer is the cursor where the enclosing loop's iteration began.
Running == call # NoCall /\ call.op = "running"

Finished == call # NoCall /\ call.op = "returned"

\* The locals at the entry of a call with the cursor at pos.
Frame(valid) ==
  [op |-> "running", pc |-> "entry", start |-> pos, valid |-> valid,
   before |-> context_stack, cs |-> csharp_scanner, lx |-> NewLexer(pos),
   found_literal_at |-> FALSE, last_was_word |-> FALSE,
   has_content |-> FALSE, found_keyword |-> FALSE, at_line_start |-> FALSE,
   keyword_buf |-> <<>>, start_char |-> EndMarker,
   sym |-> NoSymbol, i |-> 0, outer |-> pos]

\* The call returns r.
Return(m, r, sub) ==
  [op |-> "returned", start |-> m.start, valid |-> m.valid, before |-> m.before,
   csin |-> m.cs, ret |-> r.ret, sym |-> r.sym, delegated |-> r.delegated,
   tokStart |-> r.lx.start, tokEnd |-> TokenEnd(r.lx), cur |-> r.lx.pos,
   stack |-> r.stack, cs |-> r.cs,
   sub |-> IF r.delegated THEN sub ELSE SubDeclines(m.cs)]

\* The first admissible raw-content kind, in the order of the code.
RawKindOf(valid) ==
  IF SCRIPT_CONTENT \in valid THEN SCRIPT_CONTENT
  ELSE IF STYLE_CONTENT \in valid THEN STYLE_CONTENT
  ELSE IF TITLE_CONTENT \in valid THEN TITLE_CONTENT
  ELSE IF TEXTAREA_CONTENT \in valid THEN TEXTAREA_CONTENT
  ELSE NoSymbol

\* After the raw-content loop.
AfterRaw(m, sub) ==
  IF m.has_content
  THEN Return(m, Commit(m.sym, m.lx, m.before, m.cs), sub)
  ELSE Return(m, Decline(m.lx, m.before, m.cs), sub)

\* From the raw-content families on: up to the head of the content loop, or
\* to the return.
GoRaw(m, sub) ==
  LET k == RawKindOf(m.valid) IN
  IF k = NoSymbol
  THEN Return(m, Delegate(doc, m.lx, m.before, m.cs, m.valid, sub), sub)
  ELSE IF lookahead(doc, m.lx) = LT
       THEN LET lx1 == razor_advance(doc, mark_end(m.lx)) IN
            IF lookahead(doc, lx1) = SLASH
            THEN Return(m, Decline(razor_advance(doc, lx1), m.before, m.cs), sub)
            ELSE Return(m, Decline(lx1, m.before, m.cs), sub)
       ELSE [m EXCEPT !.pc = "raw", !.sym = k, !.has_content = FALSE]

\* After the rest of the preprocessor line: its terminator.
AfterPreproc(m, sub) ==
  LET a == m.lx
      b == IF ~eof(doc, a) /\ lookahead(doc, a) = CR THEN razor_advance(doc, a) ELSE a
      c == IF ~eof(doc, b) /\ lookahead(doc, b) = LF THEN razor_advance(doc, b) ELSE b
  IN Return(m, Commit(CSHARP_PREPROC, c, m.before, m.cs), sub)

GoPreproc(m, sub) ==
  IF PreprocGate(m.valid, m.before) /\ lookahead(doc, m.lx) = HASH
  THEN [m EXCEPT !.pc = "preproc", !.lx = razor_advance(doc, m.lx)]
  ELSE GoRaw(m, sub)

GoComment(m, sub) ==
  IF CommentGate(m.valid, m.before) /\ lookahead(doc, m.lx) = SLASH
  THEN LET lx1 == razor_advance(doc, m.lx) IN
       IF lookahead(doc, lx1) = SLASH
       THEN [m EXCEPT !.pc = "line", !.lx = razor_advance(doc, lx1)]
       ELSE IF lookahead(doc, lx1) = STAR
       THEN [m EXCEPT !.pc = "block", !.lx = razor_advance(doc, lx1)]
       ELSE Return(m, Decline(lx1, m.before, m.cs), sub)
  ELSE GoPreproc(m, sub)

\* After the whitespace before CSHARP_CONTEXT_CLOSE.
AfterCloseSpace(m, sub) ==
  IF CloseMatches(m.before[Len(m.before)], lookahead(doc, m.lx))
  THEN Return(m, Commit(CSHARP_CONTEXT_CLOSE, razor_advance(doc, m.lx),
                        array_pop(m.before), m.cs), sub)
  ELSE GoComment(m, sub)

GoClose(m, sub) ==
  IF CloseGate(m.valid, m.before)
  THEN [m EXCEPT !.pc = "close_space"]
  ELSE GoComment(m, sub)

\* After the whitespace before RAZOR_BLOCK_OPEN.
AfterOpenSpace(m, sub) ==
  IF lookahead(doc, m.lx) = LBRACE
  THEN Return(m, Commit(RAZOR_BLOCK_OPEN, razor_advance(doc, m.lx),
                        array_push(m.before, CONTEXT_CSHARP_BRACE), m.cs), sub)
  ELSE GoClose(m, sub)

GoOpen(m, sub) ==
  IF RAZOR_BLOCK_OPEN \in m.valid
  THEN [m EXCEPT !.pc = "open_space"]
  ELSE GoClose(m, sub)

GoAt(m, sub) ==
  IF (CSHARP_CODE_BLOCK_START \in m.valid \/ CSHARP_EXPLICIT_EXPR_START \in m.valid)
     /\ lookahead(doc, m.lx) = AT
  THEN LET lx1 == razor_advance(doc, m.lx) IN
       IF CSHARP_CODE_BLOCK_START \in m.valid /\ lookahead(doc, lx1) = LBRACE
       THEN Return(m, Commit(CSHARP_CODE_BLOCK_START, razor_advance(doc, lx1),
                             array_push(m.before, CONTEXT_CSHARP_BRACE), m.cs), sub)
       ELSE IF CSHARP_EXPLICIT_EXPR_START \in m.valid /\ lookahead(doc, lx1) = LPAREN
       THEN Return(m, Commit(CSHARP_EXPLICIT_EXPR_START, razor_advance(doc, lx1),
                             array_push(m.before, CONTEXT_CSHARP_PAREN), m.cs), sub)
       ELSE Return(m, Decline(lx1, m.before, m.cs), sub)
  ELSE GoOpen(m, sub)

\* After the markup-text loop.
AfterHtml(m, sub) ==
  IF m.has_content
  THEN Return(m, Commit(HTML_TEXT_CONTENT, m.lx, m.before, m.cs), sub)
  ELSE IF m.found_keyword
  THEN Return(m, Decline(m.lx, m.before, m.cs), sub)
  ELSE GoAt(m, sub)

GoHtml(m, sub) ==
  IF HtmlTextGate(m.valid, m.before)
  THEN [m EXCEPT !.pc = "html", !.has_content = FALSE, !.found_keyword = FALSE,
                 !.at_line_start = TRUE]
  ELSE GoAt(m, sub)

\* After the ambiguous-text loop.
AfterText(m, sub) ==
  IF m.found_literal_at
  THEN Return(m, Commit(TEXT_WITH_LITERAL_AT, m.lx, m.before, m.cs), sub)
  ELSE GoHtml(m, sub)

GoText(m, sub) ==
  IF LiteralAtGate(m.valid, m.before)
  THEN [m EXCEPT !.pc = "text", !.found_literal_at = FALSE, !.last_was_word = FALSE]
  ELSE GoHtml(m, sub)

\* One test of the ambiguous-text loop's condition and, if it holds, one
\* iteration up to the next loop head.
TextStep(m, sub) ==
  LET c == lookahead(doc, m.lx) IN
  IF ~eof(doc, m.lx) /\ c # LT /\ c # DQUOTE /\ c # SQUOTE
  THEN IF c = AT
       THEN IF m.last_was_word
            THEN LET lx1 == razor_advance(doc, m.lx) IN
                 IF is_email_char(lookahead(doc, lx1))
                 THEN [m EXCEPT !.pc = "domain", !.lx = lx1, !.found_literal_at = TRUE,
                                !.outer = m.lx.pos]
                 ELSE AfterText([m EXCEPT !.lx = lx1], sub)
            ELSE AfterText(m, sub)
       ELSE LET lx1 == razor_advance(doc, m.lx) IN
            [m EXCEPT !.last_was_word = is_email_char(c),
                      !.lx = IF m.found_literal_at THEN mark_end(lx1) ELSE lx1]
  ELSE AfterText(m, sub)

\* The domain continuation loop; when it ends the outer loop continues.
DomainStep(m, sub) ==
  LET c == lookahead(doc, m.lx) IN
  IF is_email_char(c) \/ c = DOT \/ c = DASH
  THEN [m EXCEPT !.lx = razor_advance(doc, m.lx)]
  ELSE [m EXCEPT !.pc = "text", !.lx = mark_end(m.lx), !.last_was_word = FALSE]

\* The markup-text loop.
HtmlStep(m, sub) ==
  LET c == lookahead(doc, m.lx)
      lx1 == mark_end(razor_advance(doc, m.lx))
  IN
  IF eof(doc, m.lx) THEN AfterHtml(m, sub)
  ELSE IF c = LT \/ c = AT THEN AfterHtml(m, sub)
  ELSE IF c = DOT \/ c = LBRACKET \/ c = LPAREN THEN AfterHtml(m, sub)
  ELSE IF c = DQUOTE \/ c = SQUOTE THEN AfterHtml(m, sub)
  ELSE IF c = LF \/ c = CR
       THEN [m EXCEPT !.lx = lx1, !.has_content = TRUE, !.at_line_start = TRUE]
  ELSE IF m.at_line_start /\ (c = SPACE \/ c = TAB)
       THEN [m EXCEPT !.lx = lx1, !.has_content = TRUE]
  ELSE IF m.at_line_start /\ (c = LOWER_E \/ c = LOWER_C \/ c = LOWER_F)
       THEN [m EXCEPT !.pc = "keyword", !.lx = mark_end(m.lx), !.keyword_buf = <<>>,
                      !.start_char = c, !.outer = m.lx.pos]
  ELSE [m EXCEPT !.lx = lx1, !.has_content = TRUE, !.at_line_start = FALSE]

\* The keyword run; when it ends the keyword is refused or the run is content.
KeywordStep(m, sub) ==
  IF Len(m.keyword_buf) < 7 /\ is_identifier_char(lookahead(doc, m.lx))
  THEN [m EXCEPT !.keyword_buf = Append(@, lookahead(doc, m.lx) % 256),
                 !.lx = razor_advance(doc, m.lx)]
  ELSE IF IsKeyword(doc, m.start_char, [lx |-> m.lx, buf |-> m.keyword_buf])
       THEN AfterHtml([m EXCEPT !.found_keyword = TRUE], sub)
       ELSE [m EXCEPT !.pc = "html", !.lx = mark_end(m.lx), !.has_content = TRUE,
                      !.at_line_start = FALSE]

\* The whitespace loops before RAZOR_BLOCK_OPEN and CSHARP_CONTEXT_CLOSE.
OpenSpaceStep(m, sub) ==
  IF iswspace(lookahead(doc, m.lx))
  THEN [m EXCEPT !.lx = razor_skip(doc, m.lx)]
  ELSE AfterOpenSpace(m, sub)

CloseSpaceStep(m, sub) ==
  IF iswspace(lookahead(doc, m.lx))
  THEN [m EXCEPT !.lx = razor_skip(doc, m.lx)]
  ELSE AfterCloseSpace(m, sub)

\* The line comment loop.
LineStep(m, sub) ==
  IF ~eof(doc, m.lx) /\ lookahead(doc, m.lx) # LF /\ lookahead(doc, m.lx) # CR
  THEN [m EXCEPT !.lx = razor_advance(doc, m.lx)]
  ELSE Return(m, Commit(CSHARP_COMMENT, m.lx, m.before, m.cs), sub)

\* Mutant: a * that no / follows is looked at but not consumed.
BlockStep_StarStays(m, sub) ==
  IF ~eof(doc, m.lx)
  THEN IF lookahead(doc, m.lx) = STAR
       THEN LET lx1 == razor_advance(doc, m.lx) IN
            IF lookahead(doc, lx1) = SLASH
            THEN Return(m, Commit(CSHARP_COMMENT, razor_advance(doc, lx1),
                                  m.before, m.cs), sub)
            ELSE m
       ELSE [m EXCEPT !.lx = razor_advance(doc, m.lx)]
  ELSE Return(m, Commit(CSHARP_COMMENT, m.lx, m.before, m.cs), sub)


\* The block comment loop.
BlockStep(m, sub) ==
  IF ~eof(doc, m.lx)
  THEN IF lookahead(doc, m.lx) = STAR
       THEN LET lx1 == razor_advance(doc, m.lx) IN
            IF lookahead(doc, lx1) = SLASH
            THEN Return(m, Commit(CSHARP_COMMENT, razor_advance(doc, lx1),
                                  m.before, m.cs), sub)
            ELSE [m EXCEPT !.lx = lx1]
       ELSE [m EXCEPT !.lx = razor_advance(doc, m.lx)]
  ELSE Return(m, Commit(CSHARP_COMMENT, m.lx, m.before, m.cs), sub)

\* The rest of the preprocessor line.
PreprocStep(m, sub) ==
  IF ~eof(doc, m.lx) /\ lookahead(doc, m.lx) # LF /\ lookahead(doc, m.lx) # CR
  THEN [m EXCEPT !.lx = razor_advance(doc, m.lx)]
  ELSE AfterPreproc(m, sub)

\* The raw-content loop.
RawStep(m, sub) ==
  IF ~eof(doc, m.lx)
  THEN IF lookahead(doc, m.lx) = LT
       THEN LET lx1 == razor_advance(doc, mark_end(m.lx)) IN
            IF lookahead(doc, lx1) = SLASH
            THEN [m EXCEPT !.pc = "tag", !.lx = razor_advance(doc, lx1), !.i = 1,
                           !.outer = m.lx.pos]
            ELSE [m EXCEPT !.lx = mark_end(lx1), !.has_content = TRUE]
       ELSE [m EXCEPT !.lx = mark_end(razor_advance(doc, m.lx)), !.has_content = TRUE]
  ELSE AfterRaw(m, sub)

\* The tag-name loop: a letter that does not match ends it (matches = false),
\* and so does the end of the name; only the whole name ends the content.
TagStep(m, sub) ==
  LET tag == TagName(m.sym)
      c == lookahead(doc, m.lx)
  IN
  IF m.i <= Len(tag)
  THEN IF c # tag[m.i] /\ c # tag[m.i] - 32
       THEN [m EXCEPT !.pc = "raw", !.lx = mark_end(m.lx), !.has_content = TRUE]
       ELSE [m EXCEPT !.lx = razor_advance(doc, m.lx), !.i = @ + 1]
  ELSE AfterRaw(m, sub)

\* The step of the call standing at the head of the loop m.pc.
LoopStep(m, sub) ==
  CASE m.pc = "text" -> TextStep(m, sub)
    [] m.pc = "domain" -> DomainStep(m, sub)
    [] m.pc = "html" -> HtmlStep(m, sub)
    [] m.pc = "keyword" -> KeywordStep(m, sub)
    [] m.pc = "open_space" -> OpenSpaceStep(m, sub)
    [] m.pc = "close_space" -> CloseSpaceStep(m, sub)
    [] m.pc = "line" -> LineStep(m, sub)
    [] m.pc = "block" -> BlockStep(m, sub)
    [] m.pc = "preproc" -> PreprocStep(m, sub)
    [] m.pc = "raw" -> RawStep(m, sub)
    [] m.pc = "tag" -> TagStep(m, sub)

StepDocs ==
  { <<>>,
    Str(<<"x", " ", "a", "@", "b", ".", "c", "-", "a", " ", "e">>),
    Str(<<"a", "@", " ">>),
    Str(<<"a", "@", "b", "@", "{">>),
    Str(<<"e", "l", "s", "e", " ", "f", "o", "o">>),
    Str(<<"x", "\n", " ", "e", "l", "s", "e", "{">>),
    Str(<<"f", "i", "n", "a", "l", "l", "y", "x">>),
    Str(<<" ", "\t", "{", " ", "}">>),
    Str(<<"@", "{", " ", "}">>),
    Str(<<"@", "(", " ", ")">>),
    Str(<<"@", "a">>),
    Str(<<"@", "{", "/", "/", "a", "\n", "}">>),
    Str(<<"@", "{", "/", "*", "a", "*", "*", "/", "}">>),
    Str(<<"@", "{", "/", "*", "*", "a">>),
    Str(<<"@", "{", "/", "a">>),
    Str(<<"@", "{", "#", "a", "\r", "\n", "}">>),
    Str(<<"@", "(", "#">>),
    Str(<<"a", "b", "<", "/", "s", "c", "r", "i", "p", "t", ">", "r">>),
    Str(<<"a", "<", "/", "s", "t", "y", "<", "/", "S", "T", "Y", "L", "E">>),
    Str(<<"a", "<", "b", "<", "/", "t", "i">>),
    Str(<<"<", "/", "t", "e", "x", "t", "a", "r", "e", "a", ">">>),
    Str(<<"a", "<", "/", "t", "e", "x", "t", "a", "r", "e", "a">>) }

\* The admissible-symbols sets of the calls: none, each kind alone, the pairs
\* that meet in one call, all kinds.
StepValidSets ==
  {{}} \cup {{k} : k \in RazorKinds}
  \cup { {TEXT_WITH_LITERAL_AT, HTML_TEXT_CONTENT},
         {TEXT_WITH_LITERAL_AT, CSHARP_CODE_BLOCK_START},
         {CSHARP_CODE_BLOCK_START, CSHARP_EXPLICIT_EXPR_START},
         {RAZOR_BLOCK_OPEN, CSHARP_CONTEXT_CLOSE},
         {RAZOR_BLOCK_OPEN, CSHARP_COMMENT},
         {CSHARP_CONTEXT_CLOSE, CSHARP_PREPROC},
         {CSHARP_COMMENT, CSHARP_PREPROC},
         {HTML_TEXT_CONTENT, TITLE_CONTENT},
         RazorKinds }

InitSteps ==
  /\ doc \in StepDocs
  /\ pos = 0
  /\ context_stack = <<>>
  /\ csharp_scanner = CSharpCreate
  /\ call = NoCall
  /\ trace = <<>>
  /\ buffer = <<>>
  /\ length = 0
  /\ saved = NoSave
  /\ restored = NoRestore

\* The call moves to m: when it returns, the stack and the C# scanner are as
\* the call leaves them.
MoveTo(m) ==
  /\ call' = m
  /\ context_stack' = IF m.op = "returned" THEN m.stack ELSE context_stack
  /\ csharp_scanner' = IF m.op = "returned" THEN m.cs ELSE csharp_scanner
  /\ UNCHANGED <<doc, pos, trace, buffer, length, saved, restored>>

\* The host calls scan: the code runs up to the first loop head, or returns.
StepBegin ==
  /\ call = NoCall
  /\ \E valid \in StepValidSets : \E sub \in SubAnswers(csharp_scanner) :
       MoveTo(GoText(Frame(valid), sub))

\* The call runs one step: the loop's test and one iteration, or its exit and
\* the code up to the next loop head or the return.
StepLoop ==
  /\ Running
  /\ \E sub \in SubAnswers(csharp_scanner) : MoveTo(LoopStep(call, sub))

\* The host takes the outcome of the call.
StepTake ==
  /\ Finished
  /\ pos' = IF call.ret THEN call.tokEnd ELSE pos
  /\ call' = NoCall
  /\ UNCHANGED <<doc, context_stack, csharp_scanner, trace, buffer, length, saved, restored>>

NextSteps == StepBegin \/ StepLoop \/ StepTake \/ HostLex

\* A call, once made, runs on: the code of scan never waits.
SpecSteps == InitSteps /\ [][NextSteps]_vars /\ WF_vars(StepLoop)

\* The steps of a call add up to the call as the dispatcher has it.
StepsAgreeWithScan ==
  Finished =>
    LET r == scan(doc, call.start, call.before, call.csin, call.valid, call.sub) IN
    /\ call.ret = r.ret
    /\ call.sym = r.sym
    /\ call.delegated = r.delegated
    /\ call.tokStart = r.lx.start
    /\ call.tokEnd = TokenEnd(r.lx)
    /\ call.cur = r.lx.pos
    /\ call.stack = r.stack
    /\ call.cs = r.cs

\* ------------------------------------------------------------------------
\* C22
\* ------------------------------------------------------------------------

\* The loops that run inside an iteration of another loop.
OuterOf(pc) ==
  CASE pc = "domain" -> "text"
    [] pc = "keyword" -> "html"
    [] pc = "tag" -> "raw"
    [] OTHER -> "none"

\* A step that stays in its loop has run one iteration of it: the cursor moved
\* on. A step from an inner loop back to the head of its outer loop has ended
\* an iteration of the outer loop: the cursor is past where that began.
IterationAdvances ==
  Running /\ call'.op = "running" =>
    /\ call'.pc = call.pc => call'.lx.pos > call.lx.pos
    /\ call'.pc = OuterOf(call.pc) => call'.lx.pos > call.outer

\* A call that stands at a loop head at the end of input leaves that loop.
LeavesAtEnd ==
  Running /\ eof(doc, call.lx) => ~(call'.op = "running" /\ call'.pc = call.pc)

\* The call returned a commit or a decline.
CommitOrDecline ==
  /\ Finished
  /\ \/ call.ret /\ call.sym # NoSymbol
     \/ ~call.ret /\ call.sym = NoSymbol

\* C22: every scan call terminates with a commit or a decline; each iteration
\* of every scanning loop advances the cursor by at least one character or
\* leaves the loop, and no loop goes on once the end of input is reached.
C22_Terminates ==
  /\ [][IterationAdvances]_vars
  /\ [][LeavesAtEnd]_vars
  /\ Running ~> CommitOrDecline

\* A call stands at the head of the tag-name loop at the end of input, inside
\* an iteration of the raw-content loop that began at the <.
C22_Witness ==
  /\ Running
  /\ call.pc = "tag"
  /\ eof(doc, call.lx)
  /\ doc = Str(<<"a", "<", "b", "<", "/", "t", "i">>)
  /\ call.outer = 3

\* ------------------------------------------------------------------------
\* C23
\* ------------------------------------------------------------------------

\* The depth byte of the buffer serialize wrote: the byte behind the blob.
DepthByte == buffer[Len(SavedBlob) + 1]

\* C23: every stack serialize accepts (returns a non-zero length for) has its
\* depth in the depth byte, and deserializing the buffer produced restores a
\* stack of the same depth and contents, the depths above 255 included.
C23_AcceptedSurvives ==
  Serialized /\ length > 0 =>
    /\ DepthByte = Len(saved.stack)
    /\ RoundTrip => /\ Len(restored.stack) = Len(saved.stack)
                    /\ restored.stack = saved.stack

\* ------------------------------------------------------------------------
\* C24
\* ------------------------------------------------------------------------

\* The committed token is exactly the characters w at position p.
TokenIs(p, w) ==
  /\ call.tokStart = p
  /\ call.tokEnd = p + Len(w)
  /\ LookingAt(p, w)

\* C24: a committed mode-transition token spans exactly its trigger
\* characters: @{ or @( at the call's cursor, { or the closer at the call's
\* cursor past any whitespace, and nothing an earlier family of the same call
\* advanced over, whatever the admissible set.
C24_ExactTrigger ==
  Returned /\ call.ret =>
    /\ call.sym = CSHARP_CODE_BLOCK_START => TokenIs(call.start, <<AT, LBRACE>>)
    /\ call.sym = CSHARP_EXPLICIT_EXPR_START => TokenIs(call.start, <<AT, LPAREN>>)
    /\ call.sym = RAZOR_BLOCK_OPEN => TokenIs(PastSpace(call.start), <<LBRACE>>)
    /\ call.sym = CSHARP_CONTEXT_CLOSE =>
         \/ TokenIs(PastSpace(call.start), <<RBRACE>>)
         \/ TokenIs(PastSpace(call.start), <<RPAREN>>)

\* ------------------------------------------------------------------------
\* C25
\* ------------------------------------------------------------------------

\* The tags of the C# regions.
RegionTags == {CONTEXT_CSHARP_BRACE, CONTEXT_CSHARP_PAREN}

\* C25: through scan calls, serialize calls and deserialize calls on buffers
\* serialize produced, every entry of the Mode Stack is the brace tag (1) or
\* the parenthesis tag (2), never the markup value 0 or another byte: markup
\* mode is the empty stack only.
C25_OnlyRegionTags ==
  \A i \in 1..Len(context_stack) : context_stack[i] \in RegionTags

\* A stack that a scan call pushed on was serialized and read back, the tags
\* read off the buffer: two of them, the depth of 258 having wrapped.
C25_Witness ==
  /\ Len(trace) = 1
  /\ trace[1].sym = RAZOR_BLOCK_OPEN
  /\ RoundTrip
  /\ Len(saved.stack) = ByteMod + 2
  /\ context_stack = restored.stack
  /\ Len(context_stack) = 2
  /\ call = NoCall

====
